---- MODULE Spec2Model ----
(***************************************************************************)
(* A model of the GitHub tool library (.github/scripts/python/             *)
(* github_tools.py): the REST request helper, the write gate with its      *)
(* deferral log, and the tools built on them.                              *)
(* Panels are written by the colour of their title.                        *)
(*                                                                         *)
(* Text is a sequence of string pieces: a literal of the source is one     *)
(* piece, a variable part is a sequence of one-character pieces.  A Python *)
(* value is a record [t, v]: t is its type, v its text.                    *)
(***************************************************************************)
EXTENDS Integers, Sequences, FiniteSets, TLC

VARIABLES env, log, artifactDir, clock, last, runner

vars == <<env, log, artifactDir, clock, last, runner>>

(***************************************************************************)
(* Bounds of the model.                                                    *)
(***************************************************************************)
MaxCalls == 2

(***************************************************************************)
(* Python values.                                                          *)
(***************************************************************************)
PyNone == [t |-> "none", v |-> <<>>]

PyStr(s) == [t |-> "str", v |-> s]

PyInt(digits) == [t |-> "int", v |-> digits]

PyBool(x) == [t |-> "bool", v |-> IF x THEN <<"True">> ELSE <<"False">>]

\* bool(x), for the values the tools test: None, "" and False are false
Truthy(x) == x.t # "none" /\ ~(x.t = "str" /\ x.v = <<>>) /\ x # PyBool(FALSE)

\* str(x)
PyText(x) == IF x.t = "none" THEN <<"None">> ELSE x.v

(***************************************************************************)
(* The process environment (os.environ).                                   *)
(***************************************************************************)
EnvNames == {"GITHUB_WRITE", "GITHUB_REPOSITORY", "GITHUB_TOKEN"}

\* os.environ.get(name): None when the variable is unset
EnvGet(e, name) == e[name]

\* os.environ.get(name, default)
EnvGetOr(e, name, default) == IF e[name].t = "none" THEN default ELSE e[name]

LowerChar(c) ==
  CASE c = "T" -> "t"
    [] c = "R" -> "r"
    [] c = "U" -> "u"
    [] c = "E" -> "e"
    [] OTHER -> c

\* str.lower()
Lower(s) == [i \in DOMAIN s |-> LowerChar(s[i])]

AnyValueShouldCall(e) == Truthy(EnvGetOr(e, "GITHUB_WRITE", PyStr(<<>>)))

CaseSensitiveShouldCall(e) ==
  EnvGetOr(e, "GITHUB_WRITE", PyStr(<<>>)).v = <<"t", "r", "u", "e">>

_should_call_write_api(e) ==
  Lower(EnvGetOr(e, "GITHUB_WRITE", PyStr(<<>>)).v) = <<"t", "r", "u", "e">>

(***************************************************************************)
(* The remote side.  Each outbound request ends in one of these ways.      *)
(***************************************************************************)
\* "ok": a 2xx response whose body is the JSON the API documents;
\* "http_error": a non-2xx response (raise_for_status raises);
\* "transport": the request itself fails; "bad_json": a 2xx response whose
\* body is not JSON (response.json() raises).
RemoteOutcomes == {"ok", "http_error", "transport", "bad_json"}

\* the body of a 2xx response, with the fields the tools read
OkPayload == [number |-> <<"7">>, html_url |-> <<"u">>, created_at |-> <<"c">>]

NoPayload == [none |-> <<>>]

\* str(e) of the exception a failed request raises
ExceptionText(outcome) ==
  CASE outcome = "http_error" -> <<"HTTPError">>
    [] outcome = "transport" -> <<"ConnectionError">>
    [] outcome = "bad_json" -> <<"JSONDecodeError">>
    [] OTHER -> <<"Exception">>

\* str.upper() of an HTTP method name
Upper(m) ==
  CASE m = "get" -> "GET"
    [] m = "post" -> "POST"
    [] m = "patch" -> "PATCH"
    [] OTHER -> m

RepoMissing == <<"Error: GITHUB_REPOSITORY environment variable not found">>

TokenMissing == <<"Error: GITHUB_TOKEN environment variable not found">>

\* What a call of the helper yields: kind "str" (an error string), "json" (the
\* parsed body) or "raise" (the exception, under should_raise); reqs are the
\* requests it sent.
HelperResult(kind, text, json, reqs) ==
  [kind |-> kind, text |-> text, json |-> json, reqs |-> reqs]

TokenFirstRequest(e, method, endpoint, repoArg, data, should_raise, outcome) ==
  LET repo == IF repoArg.t = "none" THEN EnvGet(e, "GITHUB_REPOSITORY") ELSE repoArg
      token == EnvGetOr(e, "GITHUB_TOKEN", PyStr(<<>>))
      req == [method |-> method,
              url |-> <<"https://api.github.com/repos/">> \o repo.v \o <<"/">> \o endpoint,
              auth |-> <<"Bearer ">> \o token.v,
              body |-> IF Upper(method) = "GET" THEN NoPayload ELSE data]
  IN  IF ~Truthy(token) THEN HelperResult("str", TokenMissing, NoPayload, <<>>)
      ELSE IF ~Truthy(repo) THEN HelperResult("str", RepoMissing, NoPayload, <<>>)
      ELSE IF outcome = "ok" THEN HelperResult("json", <<>>, OkPayload, <<req>>)
      ELSE IF should_raise THEN HelperResult("raise", ExceptionText(outcome), NoPayload, <<req>>)
      ELSE HelperResult("str", <<"Error ">> \o ExceptionText(outcome), NoPayload, <<req>>)

_github_request(e, method, endpoint, repoArg, data, should_raise, outcome) ==
  LET repo == IF repoArg.t = "none" THEN EnvGet(e, "GITHUB_REPOSITORY") ELSE repoArg
      token == EnvGetOr(e, "GITHUB_TOKEN", PyStr(<<>>))
      url == <<"https://api.github.com/repos/">> \o repo.v \o <<"/">> \o endpoint
      req == [method |-> method,
              url |-> url,
              auth |-> <<"Bearer ">> \o token.v,
              body |-> IF Upper(method) = "GET" THEN NoPayload ELSE data]
  IN  IF ~Truthy(repo) THEN HelperResult("str", RepoMissing, NoPayload, <<>>)
      ELSE IF ~Truthy(token) THEN HelperResult("str", TokenMissing, NoPayload, <<>>)
      ELSE IF outcome = "ok" THEN HelperResult("json", <<>>, OkPayload, <<req>>)
      ELSE IF should_raise THEN HelperResult("raise", ExceptionText(outcome), NoPayload, <<req>>)
      ELSE HelperResult("str", <<"Error ">> \o ExceptionText(outcome), NoPayload, <<req>>)

(***************************************************************************)
(* Tool signatures and the binding of a call's arguments to them.  A call  *)
(* is [tool, args, kwargs]: args the positional arguments, kwargs a        *)
(* function from the names given by keyword to their values.               *)
(***************************************************************************)
MutatingTools ==
  {"create_issue", "update_issue", "add_issue_comment", "create_pull_request",
   "update_pull_request", "reply_to_review_comment"}

Params(tool) ==
  CASE tool = "create_issue" -> <<"title", "body", "repo">>
    [] tool = "update_issue" -> <<"issue_number", "title", "body", "state", "repo">>
    [] tool = "add_issue_comment" -> <<"issue_number", "comment_text", "repo">>
    [] tool = "create_pull_request" ->
         <<"title", "head", "base", "body", "repo", "fallback_issue_id">>
    [] tool = "update_pull_request" -> <<"pr_number", "title", "body", "base", "repo">>
    [] tool = "reply_to_review_comment" ->
         <<"pr_number", "comment_id", "reply_text", "repo">>
    [] tool = "get_pr_review_and_comments" ->
         <<"pr_number", "show_resolved", "repo", "since">>
    [] tool = "list_issues" -> <<"state", "repo">>

Required(tool) ==
  CASE tool = "create_issue" -> {"title"}
    [] tool = "update_issue" -> {"issue_number"}
    [] tool = "add_issue_comment" -> {"issue_number", "comment_text"}
    [] tool = "create_pull_request" -> {"title", "head", "base"}
    [] tool = "update_pull_request" -> {"pr_number"}
    [] tool = "reply_to_review_comment" -> {"pr_number", "comment_id", "reply_text"}
    [] tool = "get_pr_review_and_comments" -> {"pr_number"}
    [] tool = "list_issues" -> {}

\* the default of an optional parameter: body = "" where the tool creates,
\* show_resolved = False, None otherwise
Default(tool, p) ==
  IF p = "body" /\ tool \in {"create_issue", "create_pull_request"} THEN PyStr(<<>>)
  ELSE IF p = "show_resolved" THEN PyBool(FALSE)
  ELSE IF p = "state" /\ tool = "list_issues" THEN PyStr(<<"o", "p", "e", "n">>)
  ELSE PyNone

ParamIndex(tool, p) == CHOOSE i \in 1..Len(Params(tool)) : Params(tool)[i] = p

ParamNames(tool) == {Params(tool)[i] : i \in 1..Len(Params(tool))}

\* Python's binding of func(*args, **kwargs) to the signature
Bind(c) ==
  [p \in ParamNames(c.tool) |->
     IF ParamIndex(c.tool, p) <= Len(c.args) THEN c.args[ParamIndex(c.tool, p)]
     ELSE IF p \in DOMAIN c.kwargs THEN c.kwargs[p]
     ELSE Default(c.tool, p)]

(***************************************************************************)
(* What a call does: the value it returns (or the exception it raises),    *)
(* the requests it sent, how often it entered the REST helper, the panels  *)
(* it printed, the rows of the table it printed, the deferral log and      *)
(* artifact directory it leaves, and whether the write gate passed it on   *)
(* to the tool body.                                                       *)
(***************************************************************************)
Result(ret, raised, reqs, helper, panels, lg, dir) ==
  [ret |-> ret, raised |-> raised, reqs |-> reqs, helper |-> helper,
   panels |-> panels, table |-> <<>>, log |-> lg, dir |-> dir, delegated |-> FALSE]

\* a tool body that ends after one call of the helper
AfterRequest(r, ret, raised, panels, ctx) ==
  Result(ret, raised, r.reqs, 1, panels, ctx.log, ctx.dir)

create_issue(c, ctx) ==
  LET b == Bind(c)
      r == _github_request(ctx.env, "POST", <<"issues">>, b.repo,
                           [title |-> b.title, body |-> b.body], FALSE, ctx.outs[1])
  IN  IF r.kind = "str" THEN AfterRequest(r, r.text, FALSE, <<"red">>, ctx)
      ELSE AfterRequest(r, <<"Issue created: #">> \o r.json.number \o <<" - ">>
                             \o r.json.html_url, FALSE, <<"green">>, ctx)

\* the fields of an update that were given (are not None)
GivenFields(b, names) == {n \in names : b[n].t # "none"}

UpdateIssueUnvalidated(c, ctx) ==
  LET b == Bind(c)
      given == GivenFields(b, {"title", "body", "state"})
      r == _github_request(ctx.env, "PATCH", <<"issues/">> \o PyText(b.issue_number),
                           b.repo, [n \in given |-> b[n]], FALSE, ctx.outs[1])
  IN  IF r.kind = "str" THEN AfterRequest(r, r.text, FALSE, <<"red">>, ctx)
      ELSE AfterRequest(r, <<"Issue updated: #">> \o r.json.number \o <<" - ">>
                             \o r.json.html_url, FALSE, <<"green">>, ctx)

update_issue(c, ctx) ==
  LET b == Bind(c)
      given == GivenFields(b, {"title", "body", "state"})
      data == [n \in given |-> b[n]]
      r == _github_request(ctx.env, "PATCH", <<"issues/">> \o PyText(b.issue_number),
                           b.repo, data, FALSE, ctx.outs[1])
  IN  IF given = {}
      THEN Result(<<"Error: At least one field (title, body, or state) must be provided">>,
                  FALSE, <<>>, 0, <<"red">>, ctx.log, ctx.dir)
      ELSE IF r.kind = "str" THEN AfterRequest(r, r.text, FALSE, <<"red">>, ctx)
      ELSE AfterRequest(r, <<"Issue updated: #">> \o r.json.number \o <<" - ">>
                             \o r.json.html_url, FALSE, <<"green">>, ctx)

add_issue_comment(c, ctx) ==
  LET b == Bind(c)
      r == _github_request(ctx.env, "POST",
                           <<"issues/">> \o PyText(b.issue_number) \o <<"/comments">>,
                           b.repo, [body |-> b.comment_text], FALSE, ctx.outs[1])
  IN  IF r.kind = "str" THEN AfterRequest(r, r.text, FALSE, <<"red">>, ctx)
      ELSE AfterRequest(r, <<"Comment added successfully: ">> \o r.json.html_url
                             \o <<" (created: ">> \o r.json.created_at \o <<")">>,
                        FALSE, <<"green">>, ctx)

update_pull_request(c, ctx) ==
  LET b == Bind(c)
      given == GivenFields(b, {"title", "body", "base"})
      data == [n \in given |-> b[n]]
      r == _github_request(ctx.env, "PATCH", <<"pulls/">> \o PyText(b.pr_number),
                           b.repo, data, FALSE, ctx.outs[1])
  IN  IF given = {}
      THEN Result(<<"Error: At least one field (title, body, or base) must be provided">>,
                  FALSE, <<>>, 0, <<"red">>, ctx.log, ctx.dir)
      ELSE IF r.kind = "str" THEN AfterRequest(r, r.text, FALSE, <<"red">>, ctx)
      ELSE AfterRequest(r, <<"Pull request updated: #">> \o r.json.number \o <<" - ">>
                             \o r.json.html_url, FALSE, <<"green">>, ctx)

reply_to_review_comment(c, ctx) ==
  LET b == Bind(c)
      r == _github_request(ctx.env, "POST",
                           <<"pulls/">> \o PyText(b.pr_number) \o <<"/comments/">>
                             \o PyText(b.comment_id) \o <<"/replies">>,
                           b.repo, [body |-> b.reply_text], FALSE, ctx.outs[1])
  IN  IF r.kind = "str" THEN AfterRequest(r, r.text, FALSE, <<"red">>, ctx)
      ELSE AfterRequest(r, <<"Reply added to review comment: ">> \o r.json.html_url,
                        FALSE, <<"green">>, ctx)

(***************************************************************************)
(* The write gate (check_should_call_write_api_or_record) and the deferral *)
(* log .artifact/write_operations.jsonl, a sequence of lines.              *)
(***************************************************************************)
TruncateAt == 50

\* one "key=value" of a deferred message
ParamStr(k, v) ==
  IF v.t = "str" /\ Len(v.v) > TruncateAt
  THEN <<k, "='">> \o SubSeq(v.v, 1, TruncateAt) \o <<"...'">>
  ELSE IF v.t = "str" THEN <<k, "='">> \o v.v \o <<"'">>
  ELSE <<k, "=">> \o PyText(v)

RECURSIVE JoinParams(_)
\* ', '.join(param_strs), params a sequence of <<key, value>>
JoinParams(params) ==
  IF params = <<>> THEN <<>>
  ELSE IF Len(params) = 1 THEN ParamStr(params[1][1], params[1][2])
  ELSE ParamStr(params[1][1], params[1][2]) \o <<", ">> \o JoinParams(Tail(params))

_generate_deferred_message(operation_name, params) ==
  IF params = <<>> THEN <<"Operation deferred:", " ", operation_name>>
  ELSE <<"Operation deferred:", " ", operation_name, " - ">> \o JoinParams(params)

\* params = dict(kwargs), then each positional argument under its parameter's
\* name: the keywords first, the positional arguments after them
DeferredParams(c) ==
  LET names == Params(c.tool)
      given(i) == names[i] \in DOMAIN c.kwargs /\ i > Len(c.args)
      kw == SelectSeq([i \in 1..Len(names) |-> <<i, names[i]>>], LAMBDA x : given(x[1]))
      npos == IF Len(c.args) < Len(names) THEN Len(c.args) ELSE Len(names)
  IN  [i \in 1..Len(kw) |-> <<kw[i][2], c.kwargs[kw[i][2]]>>]
        \o [i \in 1..npos |-> <<names[i], c.args[i]>>]

\* datetime.utcnow().isoformat() + "Z"
Timestamp(now) == <<ToString(now), "Z">>

OmitArgsRecord(name, c, now) ==
  [timestamp |-> Timestamp(now), function |-> name, args |-> <<>>, kwargs |-> c.kwargs]

\* the GitHubOperation record of a call
RecordEntry(name, c, now) ==
  [timestamp |-> Timestamp(now), function |-> name, args |-> c.args, kwargs |-> c.kwargs]

\* a Python value as JSON
ToJson(x) ==
  CASE x.t = "none" -> [j |-> "null", v |-> <<>>]
    [] x.t = "int" -> [j |-> "number", v |-> x.v]
    [] OTHER -> [j |-> "string", v |-> x.v]

\* json.dumps(record_entry): one JSON object, the tuple of args as an array
JsonDumps(entry) ==
  [timestamp |-> [j |-> "string", v |-> entry.timestamp],
   function |-> [j |-> "string", v |-> <<entry.function>>],
   args |-> [i \in 1..Len(entry.args) |-> ToJson(entry.args[i])],
   kwargs |-> [k \in DOMAIN entry.kwargs |-> ToJson(entry.kwargs[k])]]

OverwriteLine(lg, line) == <<line>>

\* open(".artifact/write_operations.jsonl", "a"); f.write(line + "\n")
AppendLine(lg, line) == Append(lg, line)

\* every step of recording succeeds
NoFaults == {"none"}

\* the steps of recording a call that can fail
RecordFaults == {"none", "makedirs", "open", "dumps", "write", "message", "render"}

FaultText(fault) ==
  CASE fault \in {"makedirs", "open", "write"} -> <<"OSError">>
    [] fault = "dumps" -> <<"TypeError">>
    [] OTHER -> <<"Exception">>

RecordCallUncaught(name, c, ctx) ==
  LET dirAfter == IF ctx.fault = "makedirs" THEN ctx.dir ELSE TRUE
      logAfter == IF ctx.fault \in {"makedirs", "open", "dumps", "write"}
                  THEN ctx.log
                  ELSE AppendLine(ctx.log, JsonDumps(RecordEntry(name, c, ctx.now)))
  IN  IF ctx.fault = "none"
      THEN Result(_generate_deferred_message(name, DeferredParams(c)), FALSE, <<>>, 0,
                  <<"yellow">>, logAfter, dirAfter)
      ELSE Result(FaultText(ctx.fault), TRUE, <<>>, 0, <<>>, logAfter, dirAfter)

\* The branch of the wrapper taken when writes are disabled: the try block and
\* its except clause.
RecordCall(name, c, ctx) ==
  LET entry == RecordEntry(name, c, ctx.now)
      dirAfter == IF ctx.fault = "makedirs" THEN ctx.dir ELSE TRUE
      logAfter == IF ctx.fault \in {"makedirs", "open", "dumps", "write"}
                  THEN ctx.log
                  ELSE AppendLine(ctx.log, JsonDumps(entry))
      msg == _generate_deferred_message(name, DeferredParams(c))
  IN  IF ctx.fault = "none"
      THEN Result(msg, FALSE, <<>>, 0, <<"yellow">>, logAfter, dirAfter)
      ELSE Result(<<"Error checking permissions: ">> \o FaultText(ctx.fault),
                  FALSE, <<>>, 0, <<"red">>, logAfter, dirAfter)

\* wrapper of check_should_call_write_api_or_record around a tool body;
\* `func` is what func(*args, **kwargs) does, used only when the call is
\* passed on
check_should_call_write_api_or_record(func, c, ctx) ==
  IF ~_should_call_write_api(ctx.env)
  THEN RecordCall(c.tool, c, ctx)
  ELSE [func EXCEPT !.delegated = TRUE]

\* wrapper of log_inputs: a blue panel of the keyword arguments, then what
\* func(*args, **kwargs) does
log_inputs(func) == [func EXCEPT !.panels = <<"blue">> \o @]

(***************************************************************************)
(* The mutating tools as the agent sees them: tool(log_inputs(gate(body))).*)
(***************************************************************************)
tool_create_issue(c, ctx) ==
  log_inputs(check_should_call_write_api_or_record(create_issue(c, ctx), c, ctx))

tool_update_issue(c, ctx) ==
  log_inputs(check_should_call_write_api_or_record(update_issue(c, ctx), c, ctx))

tool_add_issue_comment(c, ctx) ==
  log_inputs(check_should_call_write_api_or_record(add_issue_comment(c, ctx), c, ctx))

tool_update_pull_request(c, ctx) ==
  log_inputs(check_should_call_write_api_or_record(update_pull_request(c, ctx), c, ctx))

tool_reply_to_review_comment(c, ctx) ==
  log_inputs(check_should_call_write_api_or_record(reply_to_review_comment(c, ctx), c, ctx))

(***************************************************************************)
(* create_pull_request and its fallback link.                              *)
(***************************************************************************)
\* urllib.parse.quote(ch, safe=''): the characters of the model's alphabet
\* that are not unreserved are percent-encoded
QuoteChar(ch) ==
  CASE ch = " " -> "%20"
    [] ch = "&" -> "%26"
    [] ch = "=" -> "%3D"
    [] ch = "?" -> "%3F"
    [] ch = "/" -> "%2F"
    [] ch = "%" -> "%25"
    [] OTHER -> ch

NoQuote(text) == text

quote(text) == [i \in DOMAIN text |-> QuoteChar(text[i])]

RECURSIVE urlencode(_)
\* urlencode(pairs, quote_via=quote), pairs a sequence of <<key, value>>
urlencode(pairs) ==
  IF pairs = <<>> THEN <<>>
  ELSE LET kv == quote(pairs[1][1]) \o <<"=">> \o quote(pairs[1][2])
       IN  IF Len(pairs) = 1 THEN kv ELSE kv \o <<"&">> \o urlencode(Tail(pairs))

\* the comment posted on the fallback issue
FallbackComment(b, e) ==
  LET repo_name == IF Truthy(b.repo) THEN b.repo
                   ELSE EnvGetOr(e, "GITHUB_REPOSITORY", PyStr(<<>>))
      query_params == urlencode(<<<< <<"quick_pull">>, <<"1">> >>,
                                  << <<"title">>, b.title.v >>,
                                  << <<"body">>, b.body.v >>>>)
      pr_link == <<"https://github.com/">> \o repo_name.v \o <<"/compare/">> \o b.base.v
                   \o <<"...">> \o b.head.v \o <<"?">> \o query_params
  IN  <<"Unable to create pull request via API. You can create it manually by clicking [here](">>
        \o pr_link \o <<").">>

NoKwargs == [k \in {} |-> PyNone]

\* the except clause of create_pull_request, after the request r failed with
\* the exception text e
PullRequestFailed(b, r, e, ctx) ==
  IF b.fallback_issue_id.t # "none"
  THEN LET call == [tool |-> "add_issue_comment",
                    args |-> <<b.fallback_issue_id, PyStr(FallbackComment(b, ctx.env)),
                               b.repo>>,
                    kwargs |-> NoKwargs]
           posted == tool_add_issue_comment(call, [ctx EXCEPT !.outs = Tail(@)])
       IN  Result(IF posted.raised THEN posted.ret
                  ELSE <<"Unable to create pull request via API - posted a manual creation link as a comment on issue #">>
                         \o PyText(b.fallback_issue_id),
                  posted.raised,
                  r.reqs \o posted.reqs,
                  1 + posted.helper,
                  <<"yellow">> \o posted.panels,
                  posted.log, posted.dir)
  ELSE AfterRequest(r, <<"Error: ">> \o e, FALSE, <<"red">>, ctx)

create_pull_request(c, ctx) ==
  LET b == Bind(c)
      r == _github_request(ctx.env, "POST", <<"pulls">>, b.repo,
                           [title |-> b.title, head |-> b.head, base |-> b.base,
                            body |-> b.body],
                           TRUE, ctx.outs[1])
  IN  IF r.kind = "str" THEN AfterRequest(r, r.text, FALSE, <<"red">>, ctx)
      ELSE IF r.kind = "raise" THEN PullRequestFailed(b, r, r.text, ctx)
      ELSE AfterRequest(r, <<"Pull request created: #">> \o r.json.number \o <<" - ">>
                             \o r.json.html_url, FALSE, <<"green">>, ctx)

tool_create_pull_request(c, ctx) ==
  log_inputs(check_should_call_write_api_or_record(create_pull_request(c, ctx), c, ctx))

(***************************************************************************)
(* get_pr_review_and_comments.  The answer to its GraphQL query is the     *)
(* pull request's data: reviewThreads, a sequence of threads [isResolved,  *)
(* comments], and comments, the top-level comments.  A JSON object is a    *)
(* record, an object without members the empty function, an object that   *)
(* is null is Null; a text or a number that is null is written as the      *)
(* empty text or 0, which the code tests for truth only.  An emoji of the  *)
(* output is written by its short code.                                    *)
(***************************************************************************)
\* str.split(sep) of a text of one-character pieces
RECURSIVE Split(_, _)
Split(text, sep) ==
  IF \A i \in DOMAIN text : text[i] # sep THEN <<text>>
  ELSE LET i == CHOOSE k \in DOMAIN text : text[k] = sep /\ \A j \in 1..(k - 1) : text[j] # sep
       IN  <<SubSeq(text, 1, i - 1)>> \o Split(SubSeq(text, i + 1, Len(text)), sep)

Null == [null |-> TRUE]

EmptyDict == <<>>

\* dict.get(key, default)
Get(dict, key, default) == IF key \in DOMAIN dict THEN dict[key] ELSE default

\* bool(x) of a JSON object or null
IsObject(x) == x # Null /\ x # EmptyDict

\* bool(x) of a JSON text or null
IsText(x) == x # <<>>

\* bool(x) of a JSON number or null
IsNumber(x) == x # 0

Digits == {"0", "1", "2", "3", "4", "5", "6", "7", "8", "9"}

DigitValue(d) == CHOOSE n \in 0..9 : ToString(n) = d

\* int(text) of a text of digits; kind "error" is ValueError
RECURSIVE IntOf(_)
IntOf(text) ==
  IF text = <<>> \/ \E i \in DOMAIN text : text[i] \notin Digits
  THEN [kind |-> "error", n |-> 0]
  ELSE IF Len(text) = 1 THEN [kind |-> "int", n |-> DigitValue(text[1])]
  ELSE [kind |-> "int",
        n |-> 10 * IntOf(SubSeq(text, 1, Len(text) - 1)).n + DigitValue(text[Len(text)])]

\* str(n) of a natural number
RECURSIVE Str(_)
Str(n) == IF n < 10 THEN <<ToString(n)>> ELSE Str(n \div 10) \o <<ToString(n % 10)>>

\* str.replace(old, new) where old is one character
RECURSIVE Replace(_, _, _)
Replace(text, old, new) ==
  IF text = <<>> THEN <<>>
  ELSE (IF Head(text) = old THEN new ELSE <<Head(text)>>) \o Replace(Tail(text), old, new)

\* A timestamp is written <date-time><offset>: the date and time of day are
\* abbreviated to one digit, the hour since the epoch on the local clock; the
\* offset is "+0h:00", or missing.  datetime.fromisoformat gives an aware
\* datetime (the instant, in hours), a naive one (no offset), or ValueError.
fromisoformat(text) ==
  IF Len(text) = 1 /\ text[1] \in Digits
  THEN [kind |-> "naive", at |-> DigitValue(text[1])]
  ELSE IF /\ Len(text) = 7
          /\ text[1] \in Digits
          /\ text[2] = "+" /\ text[3] = "0" /\ text[4] \in Digits
          /\ text[5] = ":" /\ text[6] = "0" /\ text[7] = "0"
  THEN [kind |-> "aware", at |-> DigitValue(text[1]) - DigitValue(text[4])]
  ELSE [kind |-> "error", at |-> 0]

\* datetime.fromisoformat(text.replace('Z', '+00:00'))
ParseTime(text) == fromisoformat(Replace(text, "Z", <<"+", "0", "0", ":", "0", "0">>))

NotBefore(a, b) ==
  IF a.kind = "error" \/ b.kind = "error" THEN "ValueError"
  ELSE IF a.kind # b.kind THEN "TypeError"
  ELSE IF a.at >= b.at THEN "yes" ELSE "no"

\* a > b of two datetimes: "error" is the TypeError of comparing a naive with
\* an aware one, or the ValueError of either
After(a, b) ==
  IF a.kind = "error" \/ b.kind = "error" THEN "ValueError"
  ELSE IF a.kind # b.kind THEN "TypeError"
  ELSE IF a.at > b.at THEN "yes" ELSE "no"

\* a step of the tool inside its try: the data so far, or the exception
Step(err, value) == [err |-> err, value |-> value]

\* every updatedAt the filter compares with the cutoff, in the order compared:
\* any() stops at the first comment of a thread that is newer
ThreadIsNewer(thread, cutoff) ==
  LET n == Len(thread.comments)
      cmp(i) == After(ParseTime(thread.comments[i].updatedAt), cutoff)
      stop == IF \E i \in 1..n : cmp(i) # "no"
              THEN CHOOSE i \in 1..n : cmp(i) # "no" /\ \A j \in 1..(i - 1) : cmp(j) = "no"
              ELSE 0
  IN  IF stop = 0 THEN "no" ELSE cmp(stop)

\* lines 724-739: the threads and the top-level comments that pass `since`
FilterSince(pr_data, since) ==
  IF ~Truthy(since) THEN Step("", pr_data)
  ELSE
    LET cutoff == ParseTime(since.v)
        threads == pr_data.reviewThreads
        comments == pr_data.comments
        newer(i) == ThreadIsNewer(threads[i], cutoff)
        own(i) == After(ParseTime(comments[i].updatedAt), cutoff)
        raised == {newer(i) : i \in DOMAIN threads} \ {"yes", "no"}
        raised2 == {own(i) : i \in DOMAIN comments} \ {"yes", "no"}
    IN  IF cutoff.kind = "error" THEN Step("ValueError", pr_data)
        ELSE IF raised # {} THEN Step(CHOOSE e \in raised : TRUE, pr_data)
        ELSE IF raised2 # {} THEN Step(CHOOSE e \in raised2 : TRUE, pr_data)
        ELSE Step("", [reviewThreads |-> SelectSeq(threads,
                                          LAMBDA t : ThreadIsNewer(t, cutoff) = "yes"),
                       comments |-> SelectSeq(comments,
                                      LAMBDA x : After(ParseTime(x.updatedAt), cutoff) = "yes")])

\* lines 745-759: the threads to display, grouped by the review of their first
\* comment, the groups in the order their reviews are first seen.  A group is
\* [review_id, review_data, threads]; review_id is a text or the key "N/A".
ReviewOf(thread) == Get(thread.comments[1], "pullRequestReview", EmptyDict)

ReviewId(review_data) == Get(review_data, "id", <<"N/A">>)

ShowAllThreads(show_resolved, thread) == TRUE

\* line 746: the thread is not skipped
Shown(show_resolved, thread) == Truthy(show_resolved) \/ ~thread.isResolved

RECURSIVE GroupThreads(_, _, _)
GroupThreads(threads, show_resolved, groups) ==
  IF threads = <<>> THEN Step("", groups)
  ELSE
    LET thread == Head(threads)
        review_data == ReviewOf(thread)
        review_id == ReviewId(review_data)
        at == {i \in DOMAIN groups : groups[i].review_id = review_id}
        i == CHOOSE k \in at : TRUE
    IN  IF ~Shown(show_resolved, thread) \/ thread.comments = <<>>
        THEN GroupThreads(Tail(threads), show_resolved, groups)
        \* None.get("id", "N/A")
        ELSE IF review_data = Null THEN Step("AttributeError", groups)
        ELSE IF at = {}
        THEN GroupThreads(Tail(threads), show_resolved,
               Append(groups, [review_id |-> review_id, review_data |-> review_data,
                               threads |-> <<thread>>]))
        ELSE GroupThreads(Tail(threads), show_resolved,
               [groups EXCEPT ![i].threads = Append(@, thread)])

CountFromHeader(new_start) == new_start

\* line 798: the counter before the first line of a hunk that starts at
\* new_start
CounterBefore(new_start) == new_start - 1

\* lines 793-808: the lines of the hunk that remain, the counter at
\* current_new_line
RECURSIVE DiffWalk(_, _, _, _)
DiffWalk(diff_lines, current_new_line, start_line, target_line) ==
  IF diff_lines = <<>> THEN Step("", <<>>)
  ELSE
    LET diff_line == Head(diff_lines)
        rest == Tail(diff_lines)
        starts(ch) == Len(diff_line) >= 1 /\ diff_line[1] = ch
        next == current_new_line + 1
        \* the counter set from the header field "+c,d"
        counted(field, new_start) ==
          IF field = <<>> \/ new_start.kind = "error" THEN Step("ValueError", <<>>)
          ELSE DiffWalk(rest, CounterBefore(new_start.n), start_line, target_line)
        header(parts) ==
          IF Len(parts) >= 3
          THEN counted(parts[3], IntOf(Tail(Split(parts[3], ",")[1])))
          ELSE DiffWalk(rest, current_new_line, start_line, target_line)
        \* the counter advanced, the line shown if it is in the range
        emit(mark, after) ==
          Step(after.err,
               (IF start_line <= next /\ next <= target_line
                THEN <<mark>> \o Str(next) \o <<": ">> \o Tail(diff_line) \o <<"\n">>
                ELSE <<>>) \o after.value)
    IN  IF Len(diff_line) >= 2 /\ diff_line[1] = "@" /\ diff_line[2] = "@"
        THEN header(Split(diff_line, " "))
        ELSE IF starts("+")
        THEN emit("       +", DiffWalk(rest, next, start_line, target_line))
        ELSE IF starts("-")
        THEN DiffWalk(rest, current_new_line, start_line, target_line)
        ELSE IF starts(" ")
        THEN emit("        ", DiffWalk(rest, next, start_line, target_line))
        ELSE DiffWalk(rest, current_new_line, start_line, target_line)

\* lines 785-809: the code context of a thread, from its first comment
CodeContext(first_comment) ==
  IF IsText(first_comment.diffHunk) /\ IsNumber(first_comment.line)
  THEN LET target_line == first_comment.line
           start_line == IF IsNumber(first_comment.startLine)
                         THEN first_comment.startLine ELSE target_line
           shown(walk) ==
             Step(walk.err,
                  <<"      Code context (lines ">> \o Str(start_line) \o <<"-">>
                    \o Str(target_line) \o <<"):\n">> \o walk.value \o <<"\n">>)
       IN  shown(DiffWalk(Split(first_comment.diffHunk, "\n"), 0, start_line, target_line))
  ELSE Step("", <<>>)

\* lines 811-826: the comments of a thread: each comment without a reply
\* target, followed by the comments whose target it is
RECURSIVE JoinTexts(_)
JoinTexts(texts) == IF texts = <<>> THEN <<>> ELSE Head(texts) \o JoinTexts(Tail(texts))

ReplyText(reply) ==
  <<"         :reply: ">> \o reply.author.login \o <<" (updated: ">> \o reply.updatedAt
    \o <<"):\n", "           ">> \o reply.body \o <<"\n">>

\* line 820: the comment replies to root_comment
RepliesTo(c, root_comment) ==
  IsObject(c.replyTo) /\ Get(c.replyTo, "id", <<>>) = root_comment.id

ThreadComments(comments) ==
  LET root_comments == SelectSeq(comments, LAMBDA c : ~IsObject(c.replyTo))
      replies(root) == SelectSeq(comments, LAMBDA c : RepliesTo(c, root))
      RootText(root) ==
        <<"      :speech: ">> \o root.author.login \o <<" (updated: ">> \o root.updatedAt
          \o <<") [Comment ID: ">> \o root.fullDatabaseId \o <<"]:\n", "         ">>
          \o root.body \o <<"\n">>
          \o JoinTexts([i \in DOMAIN replies(root) |-> ReplyText(replies(root)[i])])
  IN  JoinTexts([i \in DOMAIN root_comments |-> RootText(root_comments[i])])

\* lines 777-826: one thread of a group
ThreadText(thread) ==
  LET first_comment == thread.comments[1]
      line_info == IF IsNumber(first_comment.line)
                   THEN <<":">> \o Str(first_comment.line) ELSE <<" (Comment on file)">>
      status == IF thread.isResolved THEN ":check: RESOLVED" ELSE ":arrows: OPEN"
      shown(context) ==
        Step(context.err,
             <<"   :pin: Thread (", status, "): ">> \o first_comment.path \o line_info
               \o <<"\n">> \o context.value \o ThreadComments(thread.comments) \o <<"\n">>)
  IN  shown(CodeContext(first_comment))

\* lines 762-827: one group of threads under the heading of its review
GroupText(group) ==
  LET review_data == group.review_data
      by == IF IsObject(Get(review_data, "author", Null))
            THEN <<"   :bust: Review by ">> \o review_data.author.login \o <<" (updated: ">>
                   \o review_data.updatedAt \o <<")\n">>
            ELSE <<>>
      body == IF IsText(Get(review_data, "body", <<>>))
              THEN <<"   :clipboard: Review Comment:\n", "      ">> \o review_data.body
                     \o <<"\n">>
              ELSE <<>>
      shown(texts, failed) ==
        IF failed # {}
        THEN Step(texts[CHOOSE i \in failed : \A j \in failed : i <= j].err, <<>>)
        ELSE Step("", <<":memo: Review [Review ID: ">> \o group.review_id \o <<"]\n">>
                        \o by \o body \o <<"\n">>
                        \o JoinTexts([i \in DOMAIN texts |-> texts[i].value]) \o <<"\n">>)
      threads(texts) == shown(texts, {i \in DOMAIN texts : texts[i].err # ""})
  IN  threads([i \in DOMAIN group.threads |-> ThreadText(group.threads[i])])

\* lines 830-835: a top-level comment of the pull request
CommentText(comment) ==
  <<":speech: Comment\n", "   :bust: Comment by ">> \o comment.author.login
    \o <<" (updated: ">> \o comment.updatedAt \o <<")\n", "   :memo: Comment:\n", "      ">>
    \o comment.body \o <<"\n\n">>

\* lines 722-836: the text of the pull request's data, or the exception
ReviewText(pr_data, pr_number, show_resolved, since) ==
  LET shown(comments, texts, failed) ==
        IF failed # {}
        THEN Step(texts[CHOOSE i \in failed : \A j \in failed : i <= j].err, <<>>)
        ELSE Step("", <<"Review threads and comments for PR #">> \o PyText(pr_number)
                        \o <<":\n\n">>
                        \o JoinTexts([i \in DOMAIN texts |-> texts[i].value])
                        \o JoinTexts([i \in DOMAIN comments |-> CommentText(comments[i])]))
      groups(comments, texts) ==
        shown(comments, texts, {i \in DOMAIN texts : texts[i].err # ""})
      displayed(comments, grouped) ==
        IF grouped.err # "" THEN Step(grouped.err, <<>>)
        ELSE groups(comments, [i \in DOMAIN grouped.value |-> GroupText(grouped.value[i])])
      kept(filtered) ==
        IF filtered.err # "" THEN Step(filtered.err, <<>>)
        ELSE displayed(filtered.value.comments,
                       GroupThreads(filtered.value.reviewThreads, show_resolved, <<>>))
  IN  kept(FilterSince(pr_data, since))

\* the answers to the GraphQL query: those of a request, and a 2xx answer
\* that carries "errors"
GraphQLOutcomes == RemoteOutcomes \cup {"graphql_errors"}

NoData == [reviewThreads |-> <<>>, comments |-> <<>>]

\* an answer is its kind and, when it is a 2xx answer without "errors", the
\* data of the pull request, drawn from D
GraphQLAnswers(D) ==
  {[kind |-> k, data |-> NoData] : k \in GraphQLOutcomes \ {"ok"}}
    \cup {[kind |-> "ok", data |-> d] : d \in D}

get_pr_review_and_comments(c, ctx) ==
  LET b == Bind(c)
      repo == IF b.repo.t = "none" THEN EnvGet(ctx.env, "GITHUB_REPOSITORY") ELSE b.repo
      token == EnvGetOr(ctx.env, "GITHUB_TOKEN", PyStr(<<>>))
      parts == Split(repo.v, "/")
      req == [method |-> "POST",
              url |-> <<"https://api.github.com/graphql">>,
              auth |-> <<"Bearer ">> \o token.v,
              body |-> [owner |-> parts[1], name |-> parts[Len(parts)],
                        number |-> b.pr_number]]
      o == ctx.outs[1]
      failed(e) == Result(<<"Error: ", e, "\n\nStack trace:\n", "traceback">>,
                          FALSE, <<req>>, 0, <<"red">>, ctx.log, ctx.dir)
      answered(output) ==
        IF output.err # "" THEN failed(output.err)
        ELSE Result(output.value, FALSE, <<req>>, 0, <<"green">>, ctx.log, ctx.dir)
  IN  IF ~Truthy(repo) THEN Result(RepoMissing, FALSE, <<>>, 0, <<>>, ctx.log, ctx.dir)
      ELSE IF ~Truthy(token) THEN Result(TokenMissing, FALSE, <<>>, 0, <<>>, ctx.log, ctx.dir)
      ELSE IF Len(parts) # 2
      THEN Result(<<"ValueError">>, TRUE, <<>>, 0, <<>>, ctx.log, ctx.dir)
      ELSE IF o.kind = "graphql_errors"
      THEN Result(<<"GraphQL Error: ", "errors">>, FALSE, <<req>>, 0, <<>>, ctx.log, ctx.dir)
      ELSE IF o.kind # "ok" THEN failed(ExceptionText(o.kind)[1])
      ELSE answered(ReviewText(o.data, b.pr_number, b.show_resolved, b.since))

tool_get_pr_review_and_comments(c, ctx) == log_inputs(get_pr_review_and_comments(c, ctx))

(***************************************************************************)
(* list_issues: the items the issues endpoint answers with, pull requests  *)
(* among them, filtered, printed as a table and returned as text.          *)
(***************************************************************************)
\* a list comprehension that keeps every item
AnyItem(item) == TRUE

\* the list comprehension's test: "pull_request" not in issue
IsIssue(item) == "pull_request" \notin DOMAIN item

\* repo or os.environ.get('GITHUB_REPOSITORY')
RepoOrEnv(repo, e) == IF Truthy(repo) THEN repo.v ELSE EnvGet(e, "GITHUB_REPOSITORY").v

\* one row of the table
IssueRow(issue) ==
  <<<<"#">> \o issue.number, issue.title, issue.user.login, issue.html_url>>

\* one line of the returned text
IssueLine(issue) ==
  <<"#">> \o issue.number \o <<" - ">> \o issue.title \o <<" by ">> \o issue.user.login
    \o <<" - ">> \o issue.html_url \o <<"\n">>

\* the answer of the issues endpoint is ctx.outs[1]: the outcome of the
\* request and, where it succeeded, the list it decoded to
list_issues(c, ctx) ==
  LET b == Bind(c)
      o == ctx.outs[1]
      result == _github_request(ctx.env, "GET", <<"issues">>, b.repo, NoPayload, FALSE,
                                o.kind)
      issues == SelectSeq(o.data, IsIssue)
      where == RepoOrEnv(b.repo, ctx.env)
      message == <<"No ">> \o b.state.v \o <<" issues found in ">> \o where
      output == <<"Issues (">> \o b.state.v \o <<") in ">> \o where \o <<":\n">>
                  \o JoinTexts([i \in 1..Len(issues) |-> IssueLine(issues[i])])
  IN  IF result.kind = "str"
      THEN Result(result.text, FALSE, result.reqs, 1, <<"red">>, ctx.log, ctx.dir)
      ELSE IF issues = <<>>
      THEN Result(message, FALSE, result.reqs, 1, <<"yellow">>, ctx.log, ctx.dir)
      ELSE [Result(output, FALSE, result.reqs, 1, <<"table">>, ctx.log, ctx.dir)
              EXCEPT !.table = [i \in 1..Len(issues) |-> IssueRow(issues[i])]]

tool_list_issues(c, ctx) == log_inputs(list_issues(c, ctx))

(***************************************************************************)
(* agent_runner.py: main reads the task from the command line and          *)
(* run_agent builds the model, the session manager and the agent and       *)
(* invokes the agent.  A text is a sequence of one-character pieces.  Of a *)
(* run the model keeps the calls it made into the agent library, in order, *)
(* what it passed to them, the lines it printed and its exit status.       *)
(***************************************************************************)
RECURSIVE join(_, _), lstrip(_), rstrip(_)

\* texts laid end to end
joinTight(sep, texts) == JoinTexts(texts)

\* sep.join(texts)
join(sep, texts) ==
  IF texts = <<>> THEN <<>>
  ELSE IF Len(texts) = 1 THEN texts[1]
  ELSE texts[1] \o sep \o join(sep, Tail(texts))

Whitespace == {" ", "\t", "\n"}

lstrip(text) ==
  IF text # <<>> /\ Head(text) \in Whitespace THEN lstrip(Tail(text)) ELSE text

rstrip(text) ==
  IF text # <<>> /\ text[Len(text)] \in Whitespace
  THEN rstrip(SubSeq(text, 1, Len(text) - 1)) ELSE text

\* str.strip()
strip(text) == rstrip(lstrip(text))

\* a session manager is built when either variable is set
EitherSet(s3_bucket, session_id) == Truthy(s3_bucket) \/ Truthy(session_id)

\* line 114: if s3_bucket and session_id
BothSet(s3_bucket, session_id) == Truthy(s3_bucket) /\ Truthy(session_id)

SessionUnset == <<"Both SESSION_ID and S3_SESSION_BUCKET must be set">>

\* the calls into the agent library, any of which may raise
LibraryCalls == <<"BedrockModel", "S3SessionManager", "Agent", "agent">>

\* what run_agent did: the library calls it made, the arguments of the
\* session manager, whether the agent was given a session manager, the query
\* the agent was invoked with, the lines printed and the exception raised
Ran(calls, session, managed, query, stdout, error) ==
  [calls |-> calls, session |-> session, managed |-> managed, query |-> query,
   stdout |-> stdout, error |-> error]

\* run_agent(query) in the environment of the process, where the library call
\* named by fault raises
run_agent(query, environ, e, fault) ==
  LET session_id == environ.SESSION_ID
      s3_bucket == environ.S3_SESSION_BUCKET
      s3_prefix == EnvGetOr(e, "GITHUB_REPOSITORY", PyStr(<<>>))
      session == [session_id |-> session_id.v, bucket |-> s3_bucket.v,
                  prefix |-> s3_prefix.v]
      using == <<<<":robot: Using session manager with session ID: ">> \o session_id.v>>
      failed(calls, ses, managed, stdout, error) ==
        Ran(calls, ses, managed, <<>>,
            stdout \o <<<<":x: Agent execution failed: ">> \o error>>, error)
  IN  IF fault = "BedrockModel"
      THEN failed(SubSeq(LibraryCalls, 1, 1), Null, FALSE, <<>>, <<fault>>)
      ELSE IF ~BothSet(s3_bucket, session_id)
      THEN failed(SubSeq(LibraryCalls, 1, 1), Null, FALSE, <<>>, SessionUnset)
      ELSE IF fault = "S3SessionManager"
      THEN failed(SubSeq(LibraryCalls, 1, 2), session, FALSE, using, <<fault>>)
      ELSE IF fault = "Agent"
      THEN failed(SubSeq(LibraryCalls, 1, 3), session, TRUE, using, <<fault>>)
      ELSE IF fault = "agent"
      THEN [failed(LibraryCalls, session, TRUE,
                   using \o <<<<"Processing user query...">>>>, <<fault>>)
              EXCEPT !.query = query]
      ELSE Ran(LibraryCalls, session, TRUE, query,
               using \o <<<<"Processing user query...">>, <<"\n\nAgent Result">>>>, <<>>)

\* the process ends: what it printed in all and its exit status, 0 where
\* main returns and 1 from sys.exit(1)
Exited(ran, stdout, status) ==
  [x \in {"status"} |-> status] @@ [ran EXCEPT !.stdout = stdout]

\* main() of a process started with sys.argv = argv: the run it made and the
\* status the process exits with
main(argv, environ, e, fault) ==
  LET task == join(<<" ">>, Tail(argv))
      ran == run_agent(task, environ, e, fault)
      running == <<<<":robot: Running agent with task: ">> \o task>>
      fatal(error) == <<<<"Fatal error: ">> \o error>>
      refused(error) == Exited(Ran(<<>>, Null, FALSE, <<>>, <<>>, error), fatal(error), 1)
  IN  IF Len(argv) < 2 THEN refused(<<"Task argument is required">>)
      ELSE IF strip(task) = <<>> THEN refused(<<"Task cannot be empty">>)
      ELSE IF ran.error # <<>>
      THEN Exited(ran, running \o ran.stdout \o fatal(ran.error), 1)
      ELSE Exited(ran, running \o ran.stdout, 0)

(***************************************************************************)
(* The calls the agent makes and the values of the environment.            *)
(***************************************************************************)
RepoText == <<"o", "/", "r">>

One == PyInt(<<"1">>)

\* the names of all parameters
ParamDomain ==
  {"title", "body", "repo", "issue_number", "state", "comment_text", "head", "base",
   "fallback_issue_id", "pr_number", "comment_id", "reply_text", "show_resolved", "since"}

\* every call of `tool` with k positional arguments, k in K, the remaining
\* required parameters by keyword and at most `opt` optional parameters by
\* keyword, the values of parameter p drawn from V[p]
CallsOf(tool, K, opt, V) ==
  LET names == Params(tool)
      rest(k) == {names[i] : i \in (k + 1)..Len(names)}
      doms(k) == {D \in SUBSET rest(k) :
                    /\ Required(tool) \cap rest(k) \subseteq D
                    /\ Cardinality(D \ Required(tool)) <= opt
                    /\ \A p \in D : V[p] # {}}
      all == UNION {V[names[i]] : i \in 1..Len(names)}
      argsOf(k) == {a \in [1..k -> all] : \A i \in 1..k : a[i] \in V[names[i]]}
      kwOf(D) == {kw \in [D -> all] : \A p \in D : kw[p] \in V[p]}
  IN  UNION {UNION {{[tool |-> tool, args |-> a, kwargs |-> kw] :
                       a \in argsOf(k), kw \in kwOf(D)} : D \in doms(k)} :
             k \in K \cap 0..Len(names)}

\* the argument values of the calls that exercise the write gate
GateValues ==
  [p \in ParamDomain |->
  CASE p \in {"issue_number", "pr_number", "comment_id", "fallback_issue_id"} -> {One}
    [] p \in {"title", "comment_text", "reply_text"} -> {PyStr(<<"a">>)}
    [] p = "head" -> {PyStr(<<"h">>)}
    [] p = "base" -> {PyStr(<<"m">>)}
    [] OTHER -> {}]

\* every tool called by keyword; the two issue tools also with one positional
\* argument
GateCalls ==
  UNION {CallsOf(t, IF t \in {"create_issue", "update_issue"} THEN {0, 1} ELSE {0},
                 1, GateValues) : t \in MutatingTools}

\* a request succeeds, is refused, or is answered with a body that is not JSON
GateOutcomes == {"ok", "http_error", "bad_json"}

TrueText == <<"t", "r", "u", "e">>

WriteValues == {PyNone, PyStr(TrueText), PyStr(<<"T", "r", "U", "E">>), PyStr(<<"n", "o">>)}

TokenValues == {PyNone, PyStr(<<"k">>)}

GateEnv ==
  [GITHUB_WRITE |-> WriteValues, GITHUB_REPOSITORY |-> {PyStr(RepoText)},
   GITHUB_TOKEN |-> TokenValues]

\* `last` before the first call
NoCall ==
  [tool |-> "none", args |-> <<>>, kwargs |-> NoKwargs, outs |-> <<>>, fault |-> "none",
   ret |-> <<>>, raised |-> FALSE, reqs |-> <<>>, helper |-> 0, panels |-> <<>>,
   table |-> <<>>, delegated |-> FALSE, appended |-> 0]

\* the runner process where the tools are used without it
NotLaunched == [pc |-> "none"]

\* the tools after the module is loaded, the environment drawn from E
Loaded(E) ==
  /\ env \in [EnvNames -> UNION {E[n] : n \in EnvNames}]
  /\ \A n \in EnvNames : env[n] \in E[n]
  /\ log = <<>>
  /\ artifactDir = FALSE
  /\ clock = 0
  /\ last = NoCall

\* the state in which an agent calls the tools
InitWith(E) == Loaded(E) /\ runner = NotLaunched

\* the environment changes between two tool calls
SetEnv(E) ==
  \E n \in EnvNames : \E x \in E[n] :
    /\ x # env[n]
    /\ env' = [env EXCEPT ![n] = x]
    /\ UNCHANGED <<log, artifactDir, clock, last, runner>>

\* one tool call, from its entry to its return: r is what the call did; `last`
\* keeps the call, the inputs the environment gave it and what it did
Finish(c, ctx, r) ==
  /\ clock < MaxCalls
  /\ clock' = clock + 1
  /\ log' = r.log
  /\ artifactDir' = r.dir
  /\ last' = [tool |-> c.tool, args |-> c.args, kwargs |-> c.kwargs, outs |-> ctx.outs,
              fault |-> ctx.fault, ret |-> r.ret, raised |-> r.raised, reqs |-> r.reqs,
              helper |-> r.helper, panels |-> r.panels, table |-> r.table,
              delegated |-> r.delegated,
              appended |-> Len(r.log) - Len(log)]
  /\ UNCHANGED <<env, runner>>

\* The inputs of a call that the program does not choose: the outcomes of the
\* requests it sends and the step of recording that fails.  A request is only
\* sent with writes enabled and a record only written with writes disabled, so
\* the inputs of the branch not taken are fixed.
Context(o1, o2, fault) ==
  [env |-> env, outs |-> <<o1, o2>>, log |-> log, dir |-> artifactDir, now |-> clock,
   fault |-> fault]

RequestOutcomes(O) == IF _should_call_write_api(env) THEN O ELSE {"ok"}

Faults(Fs) == IF _should_call_write_api(env) THEN {"none"} ELSE Fs

\* the outcome of the request that posts the fallback comment, sent only after
\* the first request of a call with a fallback issue failed
FallbackOutcomes(c, o1, O) ==
  IF o1 # "ok" /\ Bind(c).fallback_issue_id.t # "none" THEN RequestOutcomes(O) ELSE {"ok"}

CallsTo(S, tool) == {c \in S : c.tool = tool}

CreateIssue(S, O, Fs) ==
  \E c \in CallsTo(S, "create_issue") : \E o1 \in RequestOutcomes(O) : \E f \in Faults(Fs) :
    Finish(c, Context(o1, "ok", f), tool_create_issue(c, Context(o1, "ok", f)))

UpdateIssue(S, O, Fs) ==
  \E c \in CallsTo(S, "update_issue") : \E o1 \in RequestOutcomes(O) : \E f \in Faults(Fs) :
    Finish(c, Context(o1, "ok", f), tool_update_issue(c, Context(o1, "ok", f)))

AddIssueComment(S, O, Fs) ==
  \E c \in CallsTo(S, "add_issue_comment") : \E o1 \in RequestOutcomes(O) : \E f \in Faults(Fs) :
    Finish(c, Context(o1, "ok", f), tool_add_issue_comment(c, Context(o1, "ok", f)))

CreatePullRequest(S, O, Fs) ==
  \E c \in CallsTo(S, "create_pull_request") :
    \E o1 \in RequestOutcomes(O) : \E o2 \in FallbackOutcomes(c, o1, O) : \E f \in Faults(Fs) :
      Finish(c, Context(o1, o2, f), tool_create_pull_request(c, Context(o1, o2, f)))

UpdatePullRequest(S, O, Fs) ==
  \E c \in CallsTo(S, "update_pull_request") : \E o1 \in RequestOutcomes(O) : \E f \in Faults(Fs) :
    Finish(c, Context(o1, "ok", f), tool_update_pull_request(c, Context(o1, "ok", f)))

ReplyToReviewComment(S, O, Fs) ==
  \E c \in CallsTo(S, "reply_to_review_comment") :
    \E o1 \in RequestOutcomes(O) : \E f \in Faults(Fs) :
      Finish(c, Context(o1, "ok", f), tool_reply_to_review_comment(c, Context(o1, "ok", f)))

(***************************************************************************)
(* The mutating tools under a changing environment, every step of          *)
(* recording a deferred call succeeding.                                   *)
(***************************************************************************)
Init == InitWith(GateEnv)

Next ==
  \/ SetEnv(GateEnv)
  \/ CreateIssue(GateCalls, GateOutcomes, NoFaults)
  \/ UpdateIssue(GateCalls, GateOutcomes, NoFaults)
  \/ AddIssueComment(GateCalls, GateOutcomes, NoFaults)
  \/ CreatePullRequest(GateCalls, GateOutcomes, NoFaults)
  \/ UpdatePullRequest(GateCalls, GateOutcomes, NoFaults)
  \/ ReplyToReviewComment(GateCalls, GateOutcomes, NoFaults)

Spec == Init /\ [][Next]_vars

(***************************************************************************)
(* The same, where a step of recording a deferred call may fail.           *)
(***************************************************************************)
NextFaults ==
  \/ SetEnv(GateEnv)
  \/ CreateIssue(GateCalls, GateOutcomes, RecordFaults)
  \/ UpdateIssue(GateCalls, GateOutcomes, RecordFaults)
  \/ AddIssueComment(GateCalls, GateOutcomes, RecordFaults)
  \/ CreatePullRequest(GateCalls, GateOutcomes, RecordFaults)
  \/ UpdatePullRequest(GateCalls, GateOutcomes, RecordFaults)
  \/ ReplyToReviewComment(GateCalls, GateOutcomes, RecordFaults)

SpecFaults == Init /\ [][NextFaults]_vars

(***************************************************************************)
(* create_pull_request with writes enabled, over titles and bodies that    *)
(* hold characters a URL reserves.                                         *)
(***************************************************************************)
PullRequestValues ==
  [p \in ParamDomain |->
  CASE p = "title" -> {PyStr(<<"a">>), PyStr(<<"a", "&", "b", "=", "c">>),
                       PyStr(<<"x", " ", "?">>)}
    [] p = "body" -> {PyStr(<<"p", "/", "q", " ", "%">>)}
    [] p = "head" -> {PyStr(<<"h">>)}
    [] p = "base" -> {PyStr(<<"m">>)}
    [] p = "repo" -> {PyStr(RepoText)}
    [] p = "fallback_issue_id" -> {One, PyInt(<<"0">>)}
    [] OTHER -> {}]

PullRequestCalls == CallsOf("create_pull_request", {0}, 3, PullRequestValues)

PullRequestEnv ==
  [GITHUB_WRITE |-> {PyStr(TrueText)}, GITHUB_REPOSITORY |-> {PyNone, PyStr(RepoText)},
   GITHUB_TOKEN |-> {PyStr(<<"k">>)}]

InitPR == InitWith(PullRequestEnv)

NextPR ==
  \/ SetEnv(PullRequestEnv)
  \/ CreatePullRequest(PullRequestCalls, RemoteOutcomes, NoFaults)

SpecPR == InitPR /\ [][NextPR]_vars

(***************************************************************************)
(* The REST helper on its own, called as the tools call it: over every     *)
(* resolution of the repository and the token.                             *)
(***************************************************************************)
RepoValues == {PyNone, PyStr(<<>>), PyStr(RepoText)}

RequestEnv ==
  [GITHUB_WRITE |-> {PyNone}, GITHUB_REPOSITORY |-> RepoValues,
   GITHUB_TOKEN |-> {PyNone, PyStr(<<>>), PyStr(<<"k">>)}]

\* one call _github_request(method, "issues", repo, data, should_raise=...)
GithubRequest ==
  \E method \in {"GET", "POST", "PATCH", "get"} : \E repo \in RepoValues :
    \E should_raise \in BOOLEAN : \E o \in RemoteOutcomes :
      LET r == _github_request(env, method, <<"issues">>, repo,
                               [title |-> PyStr(<<"a">>)], should_raise, o)
      IN  /\ clock < MaxCalls
          /\ clock' = clock + 1
          /\ last' = [tool |-> "_github_request", args |-> <<>>,
                      kwargs |-> [method |-> PyStr(<<method>>), repo |-> repo,
                                  should_raise |-> PyBool(should_raise)],
                      outs |-> <<o>>, fault |-> "none", ret |-> r.text,
                      raised |-> (r.kind = "raise"), reqs |-> r.reqs, helper |-> 1,
                      panels |-> <<>>, table |-> <<>>, delegated |-> FALSE,
                      appended |-> 0]
          /\ UNCHANGED <<env, log, artifactDir, runner>>

InitRequest == InitWith(RequestEnv)

NextRequest == SetEnv(RequestEnv) \/ GithubRequest

SpecRequest == InitRequest /\ [][NextRequest]_vars

(***************************************************************************)
(* The review reader over repositories of every shape.                     *)
(***************************************************************************)
ReadValues ==
  [p \in ParamDomain |->
  CASE p = "pr_number" -> {One}
    [] p = "show_resolved" -> {PyBool(TRUE)}
    [] p = "repo" -> {PyStr(<<>>), PyStr(RepoText), PyStr(<<"o">>),
                      PyStr(<<"a", "/", "b", "/", "c">>)}
    [] OTHER -> {}]

ReadCalls == CallsOf("get_pr_review_and_comments", {0, 1}, 2, ReadValues)

ReadEnv ==
  [GITHUB_WRITE |-> {PyNone},
   GITHUB_REPOSITORY |-> {PyNone, PyStr(RepoText), PyStr(<<"o">>)},
   GITHUB_TOKEN |-> TokenValues]

GetPrReviewAndComments(S, A) ==
  \E c \in CallsTo(S, "get_pr_review_and_comments") : \E o \in A :
    Finish(c, Context(o, "ok", "none"),
           tool_get_pr_review_and_comments(c, Context(o, "ok", "none")))

InitRead == InitWith(ReadEnv)

NextRead ==
  \/ SetEnv(ReadEnv)
  \/ GetPrReviewAndComments(ReadCalls, GraphQLAnswers({NoData}))

SpecRead == InitRead /\ [][NextRead]_vars

(***************************************************************************)
(* The review reader over pull requests whose threads and comments differ  *)
(* in age and resolution.  The body of a comment is the letter of its id,  *)
(* and the threads of a pull request have different one-letter paths.      *)
(***************************************************************************)
Login == [login |-> <<"u">>]

\* a review comment, as the query of lines 666-705 asks for it
ReviewComment(id, updatedAt, replyTo, review) ==
  [id |-> <<id>>, fullDatabaseId |-> <<"4", "2">>, author |-> Login, body |-> <<id>>,
   updatedAt |-> updatedAt, path |-> <<"f">>, line |-> 0, startLine |-> 0,
   diffHunk |-> <<>>, replyTo |-> replyTo, pullRequestReview |-> review]

\* a top-level comment
PrComment(body, updatedAt) == [author |-> Login, body |-> <<body>>, updatedAt |-> updatedAt]

Review(id) ==
  [id |-> <<id>>, body |-> <<"B">>, author |-> Login, updatedAt |-> <<"1", "Z">>]

Paths == <<"f", "g", "h">>

CommentIds == << <<"a", "b", "c">>, <<"d", "e", "i">>, <<"j", "k", "l">> >>

\* the i-th thread of a pull request is given its path
Placed(threads) ==
  [i \in DOMAIN threads |->
     [threads[i] EXCEPT !.comments = [k \in DOMAIN @ |-> [@[k] EXCEPT !.path = <<Paths[i]>>,
                                                              !.id = <<CommentIds[i][k]>>,
                                                              !.body = <<CommentIds[i][k]>>]]]]

\* a thread whose comments, none a reply, were updated at the given times
AgedThread(times, isResolved) ==
  [isResolved |-> isResolved,
   comments |-> [k \in DOMAIN times |-> ReviewComment("a", times[k], Null, Review("R"))]]

Z(h) == <<ToString(h), "Z">>

AgedThreads ==
  {AgedThread(t, r) : t \in {<<Z(1), Z(1)>>, <<Z(1), Z(3)>>, <<Z(3), Z(1)>>, <<Z(2)>>},
                      r \in {FALSE}}
    \cup {AgedThread(<<Z(1), Z(3)>>, TRUE)}

AgedData ==
  {[reviewThreads |-> Placed(ts),
    comments |-> <<PrComment("x", Z(1)), PrComment("y", Z(2)), PrComment("z", Z(3))>>] :
     ts \in {<<t>> : t \in AgedThreads}
              \cup (AgedThreads \X {AgedThread(<<Z(2)>>, FALSE), AgedThread(<<Z(3), Z(1)>>, TRUE)})}

SinceValues ==
  [p \in ParamDomain |->
  CASE p = "pr_number" -> {One}
    [] p = "show_resolved" -> {PyBool(TRUE), PyBool(FALSE)}
    [] p = "since" -> {PyStr(<<>>), PyStr(Z(2)), PyStr(<<"3", "+", "0", "1", ":", "0", "0">>),
                       PyStr(<<"2">>), PyStr(<<"x">>)}
    [] OTHER -> {}]

SinceCalls == CallsOf("get_pr_review_and_comments", {0}, 2, SinceValues)

ReviewEnv ==
  [GITHUB_WRITE |-> {PyNone}, GITHUB_REPOSITORY |-> {PyStr(RepoText)},
   GITHUB_TOKEN |-> TokenValues]

InitReview == InitWith(ReviewEnv)

NextSince ==
  \/ SetEnv(ReviewEnv)
  \/ GetPrReviewAndComments(SinceCalls, GraphQLAnswers(AgedData))

SpecSince == InitReview /\ [][NextSince]_vars

(***************************************************************************)
(* The review reader over threads on a diff hunk "@@ -1,3 +c,3 @@" of      *)
(* three lines, each a context, an added or a removed line.                *)
(***************************************************************************)
HunkStarts == {2, 10}

HunkKinds == [1..3 -> {" ", "+", "-"}]

HunkContent == <<"p", "q", "r">>

Hunk(c, kinds) ==
  <<"@", "@", " ", "-", "1", ",", "3", " ", "+">> \o Str(c) \o <<",", "3", " ", "@", "@">>
    \o JoinTexts([i \in 1..3 |-> <<"\n", kinds[i], HunkContent[i]>>])

\* the comment is on the lines startLine..line of the new file, counted from
\* the start c of the hunk; 0 is null
HunkRanges == {<<0, 0>>, <<0, 1>>, <<1, 2>>, <<0, 3>>, <<1, 3>>}

HunkThread(c, kinds, range) ==
  [isResolved |-> FALSE,
   comments |-> <<[ReviewComment("a", Z(1), Null, Review("R")) EXCEPT
                     !.diffHunk = Hunk(c, kinds),
                     !.startLine = IF range[1] = 0 THEN 0 ELSE c + range[1] - 1,
                     !.line = IF range[2] = 0 THEN 0 ELSE c + range[2] - 1]>>]

HunkData ==
  {[reviewThreads |-> Placed(<<HunkThread(c, kinds, range)>>), comments |-> <<>>] :
     c \in HunkStarts, kinds \in HunkKinds, range \in HunkRanges}

DiffValues ==
  [p \in ParamDomain |->
  CASE p = "pr_number" -> {One}
    [] OTHER -> {}]

DiffCalls == CallsOf("get_pr_review_and_comments", {0}, 0, DiffValues)

NextDiff ==
  \/ SetEnv(ReviewEnv)
  \/ GetPrReviewAndComments(DiffCalls, GraphQLAnswers(HunkData))

SpecDiff == InitReview /\ [][NextDiff]_vars

(***************************************************************************)
(* The review reader over threads that differ in the review of their first *)
(* comment, and over a thread whose comments differ in what they reply to. *)
(***************************************************************************)
\* the comment without the member pullRequestReview
WithoutReview(comment) ==
  [k \in DOMAIN comment \ {"pullRequestReview"} |-> comment[k]]

ReviewedThreads ==
  {[isResolved |-> FALSE, comments |-> <<ReviewComment("a", Z(1), Null, review)>>] :
     review \in {Review("R"), Review("S"), Null}}
    \cup {[isResolved |-> FALSE,
           comments |-> <<WithoutReview(ReviewComment("a", Z(1), Null, Null))>>]}

ReviewedData ==
  {[reviewThreads |-> Placed(ts), comments |-> <<>>] :
     ts \in {<<t>> : t \in ReviewedThreads}
              \cup (ReviewedThreads \X ReviewedThreads)
              \cup (ReviewedThreads \X ReviewedThreads \X ReviewedThreads)}

\* what the second and the third comment of a thread may reply to: nothing,
\* a comment of the thread, or a comment the answer does not hold
ReplyTargets == {Null, [id |-> <<"a">>], [id |-> <<"b">>], [id |-> <<"x">>]}

RepliedData ==
  {[reviewThreads |->
      Placed(<<[isResolved |-> FALSE,
                comments |-> <<ReviewComment("a", Z(1), first, Review("R")),
                               ReviewComment("b", Z(2), second, Review("R")),
                               ReviewComment("c", Z(3), third, Review("R"))>>]>>),
    comments |-> <<>>] :
     first \in {Null, [id |-> <<"x">>]}, second \in ReplyTargets \ {[id |-> <<"b">>]},
     third \in ReplyTargets}

NextThreads ==
  \/ SetEnv(ReviewEnv)
  \/ GetPrReviewAndComments(DiffCalls, GraphQLAnswers(ReviewedData \cup RepliedData))

SpecThreads == InitReview /\ [][NextThreads]_vars

(***************************************************************************)
(* Vocabulary of the properties.                                           *)
(***************************************************************************)
\* the value of GITHUB_WRITE is "true" in some letter casing
IsTrueAnyCase(x) ==
  /\ x.t = "str"
  /\ Len(x.v) = 4
  /\ x.v[1] \in {"t", "T"}
  /\ x.v[2] \in {"r", "R"}
  /\ x.v[3] \in {"u", "U"}
  /\ x.v[4] \in {"e", "E"}

\* in a step: the policy the environment states when the call is entered
WritesEnabledAtEntry == IsTrueAnyCase(env["GITHUB_WRITE"])

\* a step that is a tool call
CallStep == clock' = clock + 1

MutatingCallStep == CallStep /\ last'.tool \in MutatingTools

StartsWith(text, piece) == Len(text) >= 1 /\ text[1] = piece

IsDeferredMessage(text) == StartsWith(text, "Operation deferred:")

IsGateError(text) == StartsWith(text, "Error checking permissions: ")

\* the call l is an update that names no field to change
NoFieldsGiven(l) ==
  \/ l.tool = "update_issue" /\ \A p \in {"title", "body", "state"} : Bind(l)[p] = PyNone
  \/ l.tool = "update_pull_request"
       /\ \A p \in {"title", "body", "base"} : Bind(l)[p] = PyNone

IsValidationError(text) ==
  text \in {<<"Error: At least one field (title, body, or state) must be provided">>,
            <<"Error: At least one field (title, body, or base) must be provided">>}

\* no repository or no token can be resolved for the call l under e
ConfigMissing(e, l) ==
  \/ e["GITHUB_TOKEN"] \in {PyNone, PyStr(<<>>)}
  \/ (IF Bind(l).repo = PyNone THEN e["GITHUB_REPOSITORY"] ELSE Bind(l).repo)
       \in {PyNone, PyStr(<<>>)}

\* the line is the JSON record of the call l
LineRecords(line, l) ==
  /\ line.function = [j |-> "string", v |-> <<l.tool>>]
  /\ Len(line.args) = Len(l.args)
  /\ \A i \in 1..Len(l.args) : line.args[i].v = l.args[i].v
  /\ DOMAIN line.kwargs = DOMAIN l.kwargs
  /\ \A k \in DOMAIN l.kwargs : line.kwargs[k].v = l.kwargs[k].v

(***************************************************************************)
(* C1                                                                      *)
(***************************************************************************)
\* C1 as stated: every call of a mutating tool either performs exactly one
\* API request, returns its result and appends no record, or performs no
\* request, appends exactly one record and returns a deferred message.
C1_OneRequestOrOneRecord ==
  last.tool \in MutatingTools =>
    \/ Len(last.reqs) = 1 /\ last.appended = 0 /\ ~IsDeferredMessage(last.ret)
    \/ Len(last.reqs) = 0 /\ last.appended = 1 /\ IsDeferredMessage(last.ret)

\* C1 amended: a call of a mutating tool never both sends a request and
\* appends a record.  With writes disabled it sends no request and, every
\* step of recording succeeding, appends exactly one record and returns a
\* deferred message.  With writes enabled it appends no record and sends one
\* request, except none when it ends in a validation or configuration error,
\* and two only when create_pull_request was given a fallback issue.
C1_NeverBoth ==
  [][MutatingCallStep =>
       /\ ~(Len(last'.reqs) > 0 /\ last'.appended > 0)
       /\ ~WritesEnabledAtEntry =>
            /\ Len(last'.reqs) = 0
            /\ last'.fault = "none" =>
                 last'.appended = 1 /\ IsDeferredMessage(last'.ret)
       /\ WritesEnabledAtEntry =>
            /\ last'.appended = 0
            /\ ~IsDeferredMessage(last'.ret)
            /\ Len(last'.reqs) \in {0, 1, 2}
            /\ Len(last'.reqs) = 0 <=> (NoFieldsGiven(last') \/ ConfigMissing(env, last'))
            /\ Len(last'.reqs) = 2 =>
                 /\ last'.tool = "create_pull_request"
                 /\ Bind(last').fallback_issue_id # PyNone]_vars

\* a call with writes enabled that sent two requests, after one that was deferred
C1_Witness ==
  /\ last.tool = "create_pull_request"
  /\ Len(last.reqs) = 2
  /\ last.appended = 0
  /\ Len(log) = 1

(***************************************************************************)
(* C2                                                                      *)
(***************************************************************************)
\* C2: with GITHUB_WRITE unset or not "true" in any casing, a call of a
\* mutating tool sends no request, appends exactly one JSON line that holds
\* the operation's name and every positional and keyword argument of the
\* call, and returns a string that begins with "Operation deferred:".
C2_DisabledDefers ==
  [][(MutatingCallStep /\ ~WritesEnabledAtEntry) =>
       /\ last'.reqs = <<>>
       /\ last'.helper = 0
       /\ Len(log') = Len(log) + 1
       /\ LineRecords(log'[Len(log')], last')
       /\ ~last'.raised
       /\ IsDeferredMessage(last'.ret)]_vars

\* a deferred call with a positional and a keyword argument, GITHUB_WRITE
\* set to a value other than "true"
C2_Witness ==
  /\ last.tool = "update_issue"
  /\ Len(last.args) = 1
  /\ DOMAIN last.kwargs = {"title"}
  /\ IsDeferredMessage(last.ret)
  /\ env["GITHUB_WRITE"] = PyStr(<<"n", "o">>)
  /\ last.appended = 1

(***************************************************************************)
(* C3                                                                      *)
(***************************************************************************)
\* C3 as stated: with GITHUB_WRITE "true" in any casing, every call of a
\* mutating tool enters _github_request and appends nothing to the log.
C3_EnabledReachesHelper ==
  [][(MutatingCallStep /\ WritesEnabledAtEntry) =>
       last'.helper >= 1 /\ log' = log]_vars

\* C3 amended: with GITHUB_WRITE "true" in any casing, a call of a mutating
\* tool appends nothing to the log and enters _github_request, except a call
\* of update_issue or update_pull_request that names no field to change,
\* which returns its validation error without entering _github_request.
C3_EnabledReachesHelperUnlessInvalid ==
  [][(MutatingCallStep /\ WritesEnabledAtEntry) =>
       /\ log' = log
       /\ last'.delegated
       /\ last'.helper >= 1 <=> ~NoFieldsGiven(last')
       /\ NoFieldsGiven(last') => IsValidationError(last'.ret)]_vars

\* a call under GITHUB_WRITE=TrUE that entered the helper and sent its request
C3_Witness ==
  /\ last.tool \in MutatingTools
  /\ env["GITHUB_WRITE"] = PyStr(<<"T", "r", "U", "E">>)
  /\ last.helper = 1
  /\ Len(last.reqs) = 1
  /\ last.appended = 0

(***************************************************************************)
(* C4                                                                      *)
(***************************************************************************)
\* C4: update_issue and update_pull_request called with no field to change
\* return a validation error, send no request and append no record, whether
\* writes are enabled or not.
C4_InvalidUpdateRejected ==
  NoFieldsGiven(last) =>
    /\ IsValidationError(last.ret)
    /\ last.reqs = <<>>
    /\ last.appended = 0

(***************************************************************************)
(* C5                                                                      *)
(***************************************************************************)
\* C5: with writes disabled, when a step of recording a call fails, the
\* wrapper returns an error string: nothing is raised to the caller, the
\* wrapped operation is not called and no request is sent.
C5_RecordingFailureCaught ==
  (last.tool \in MutatingTools /\ last.fault # "none") =>
    /\ ~last.raised
    /\ IsGateError(last.ret)
    /\ ~last.delegated
    /\ last.helper = 0
    /\ last.reqs = <<>>

\* a call whose record was appended and whose deferred message then failed
C5_Witness ==
  /\ last.tool \in MutatingTools
  /\ last.fault = "render"
  /\ last.appended = 1
  /\ IsGateError(last.ret)

(***************************************************************************)
(* C6                                                                      *)
(***************************************************************************)
\* C6: the policy is read from GITHUB_WRITE at every entry into the wrapper:
\* a call is passed on to the real operation if and only if GITHUB_WRITE is
\* "true" in some casing when the call is made, whatever it was before.
C6_PolicyReadAtEveryCall ==
  [][MutatingCallStep => (last'.delegated <=> WritesEnabledAtEntry)]_vars

\* a call passed on to the real operation after an earlier call of the run
\* was deferred
C6_Witness ==
  /\ last.tool \in MutatingTools
  /\ last.delegated
  /\ Len(log) = 1
  /\ clock = 2

(***************************************************************************)
(* C7                                                                      *)
(***************************************************************************)
\* C7: the deferral log is append-only and in call order: a step leaves the
\* log as it is or appends one line at its end, the record of the call made
\* in that step; every deferred call appends its record; no line is ever
\* rewritten, reordered or removed.
C7_AppendOnly ==
  [][/\ \/ log' = log
        \/ /\ CallStep
           /\ Len(log') = Len(log) + 1
           /\ SubSeq(log', 1, Len(log)) = log
           /\ LineRecords(log'[Len(log')], last')
           /\ log'[Len(log')].timestamp.v = <<ToString(clock), "Z">>
     /\ (CallStep /\ IsDeferredMessage(last'.ret)) => Len(log') = Len(log) + 1]_vars

\* two deferred calls of different tools left two lines, in call order
C7_Witness ==
  /\ Len(log) = 2
  /\ log[1].timestamp.v = <<"0", "Z">>
  /\ log[2].timestamp.v = <<"1", "Z">>
  /\ log[1].function # log[2].function

(***************************************************************************)
(* C8                                                                      *)
(***************************************************************************)
UnquoteChar(ch) ==
  CASE ch = "%20" -> " "
    [] ch = "%26" -> "&"
    [] ch = "%3D" -> "="
    [] ch = "%3F" -> "?"
    [] ch = "%2F" -> "/"
    [] ch = "%25" -> "%"
    [] OTHER -> ch

\* percent-decoding, as the reader of a URL does it
Unquote(text) == [i \in DOMAIN text |-> UnquoteChar(text[i])]

\* the position of the first piece `sep` of text, 0 when there is none
IndexOf(text, sep) ==
  IF \E i \in DOMAIN text : text[i] = sep
  THEN CHOOSE i \in DOMAIN text : text[i] = sep /\ \A j \in 1..(i - 1) : text[j] # sep
  ELSE 0

RECURSIVE SplitAt(_, _)
\* text.split(sep)
SplitAt(text, sep) ==
  IF IndexOf(text, sep) = 0 THEN <<text>>
  ELSE <<SubSeq(text, 1, IndexOf(text, sep) - 1)>>
         \o SplitAt(SubSeq(text, IndexOf(text, sep) + 1, Len(text)), sep)

\* the query parameters a URL's query string states, in order: each
\* "&"-separated part is a name, and after its first "=" a value
ParseQuery(query) ==
  LET parts == SplitAt(query, "&")
      name(p) == IF IndexOf(p, "=") = 0 THEN p ELSE SubSeq(p, 1, IndexOf(p, "=") - 1)
      value(p) == IF IndexOf(p, "=") = 0 THEN <<>>
                  ELSE SubSeq(p, IndexOf(p, "=") + 1, Len(p))
  IN  [i \in 1..Len(parts) |-> <<Unquote(name(parts[i])), Unquote(value(parts[i]))>>]

\* the link of a fallback comment: what stands between "[here](" and ")."
LinkOf(comment) == SubSeq(comment, 2, Len(comment) - 1)

\* the repository a call l addresses under e
RepoOf(e, l) == IF Truthy(Bind(l).repo) THEN Bind(l).repo.v ELSE e["GITHUB_REPOSITORY"].v

\* the POST of the call l to pulls was sent and failed
PullsPostFailed(l) ==
  /\ l.tool = "create_pull_request"
  /\ Len(l.reqs) >= 1
  /\ l.reqs[1].url = <<"https://api.github.com/repos/">> \o RepoOf(env, l) \o <<"/", "pulls">>
  /\ l.outs[1] # "ok"

\* C8: when the POST of create_pull_request to pulls fails and a fallback
\* issue is given, a comment is posted on that issue whose link is
\* https://github.com/{repo}/compare/{base}...{head} with exactly the query
\* parameters quick_pull=1, title=<title>, body=<body>, URL-encoded, and the
\* message returned names the fallback issue; without a fallback issue a
\* plain error string is returned and no comment is posted.
C8_FallbackLink ==
  PullsPostFailed(last) =>
    LET b == Bind(last) IN
    IF b.fallback_issue_id # PyNone
    THEN /\ Len(last.reqs) = 2
         /\ last.reqs[2].method = "POST"
         /\ last.reqs[2].url = <<"https://api.github.com/repos/">> \o RepoOf(env, last)
                                 \o <<"/", "issues/">> \o b.fallback_issue_id.v
                                 \o <<"/comments">>
         /\ LET link == LinkOf(last.reqs[2].body.body.v)
                q == IndexOf(link, "?")
            IN  /\ q > 0
                /\ SubSeq(link, 1, q - 1) =
                     <<"https://github.com/">> \o RepoOf(env, last) \o <<"/compare/">>
                       \o b.base.v \o <<"...">> \o b.head.v
                /\ ParseQuery(SubSeq(link, q + 1, Len(link))) =
                     << << <<"quick_pull">>, <<"1">> >>,
                        << <<"title">>, b.title.v >>,
                        << <<"body">>, b.body.v >> >>
         /\ ~last.raised
         /\ last.ret =
              <<"Unable to create pull request via API - posted a manual creation link as a comment on issue #">>
                \o b.fallback_issue_id.v
    ELSE /\ Len(last.reqs) = 1
         /\ ~last.raised
         /\ StartsWith(last.ret, "Error: ")
         /\ Len(last.ret) = 2

\* the POST failed, the fallback issue is 0, the title holds "&" and "="
C8_Witness ==
  /\ PullsPostFailed(last)
  /\ Bind(last).fallback_issue_id = PyInt(<<"0">>)
  /\ Bind(last).title = PyStr(<<"a", "&", "b", "=", "c">>)
  /\ Bind(last).body = PyStr(<<"p", "/", "q", " ", "%">>)
  /\ Len(last.reqs) = 2

(***************************************************************************)
(* C9                                                                      *)
(***************************************************************************)
Unset(x) == x \in {PyNone, PyStr(<<>>)}

\* C9: _github_request returns "Error: GITHUB_REPOSITORY environment variable
\* not found" when neither its repo argument nor GITHUB_REPOSITORY yields a
\* repository, and "Error: GITHUB_TOKEN environment variable not found" when
\* a repository is resolved and GITHUB_TOKEN is not set; in both cases it
\* sends no request and raises nothing, for every method and every
\* should_raise, and the repository is checked before the token.
C9_ConfigurationErrors ==
  [][(CallStep /\ last'.tool = "_github_request") =>
       LET arg == last'.kwargs.repo
           neither == Unset(arg) /\ Unset(env["GITHUB_REPOSITORY"])
           resolved == ~Unset(arg) \/ (arg = PyNone /\ ~Unset(env["GITHUB_REPOSITORY"]))
       IN  /\ neither =>
                /\ last'.ret = <<"Error: GITHUB_REPOSITORY environment variable not found">>
                /\ last'.reqs = <<>>
                /\ ~last'.raised
           /\ (resolved /\ Unset(env["GITHUB_TOKEN"])) =>
                /\ last'.ret = <<"Error: GITHUB_TOKEN environment variable not found">>
                /\ last'.reqs = <<>>
                /\ ~last'.raised]_vars

\* neither a repository nor a token, should_raise set: the repository error
C9_Witness ==
  /\ last.tool = "_github_request"
  /\ last.kwargs.repo = PyNone
  /\ last.kwargs.should_raise = PyBool(TRUE)
  /\ env["GITHUB_REPOSITORY"] = PyNone
  /\ env["GITHUB_TOKEN"] = PyNone
  /\ last.ret = <<"Error: GITHUB_REPOSITORY environment variable not found">>
  /\ last.reqs = <<>>

(***************************************************************************)
(* C10                                                                     *)
(***************************************************************************)
\* C10: every call of a tool, for every input, configuration and remote
\* outcome, ends by returning a string; none ends by raising.
C10_ToolsReturnStrings ==
  last.tool \in MutatingTools \cup {"get_pr_review_and_comments"} =>
    ~last.raised /\ Len(last.ret) >= 1

(***************************************************************************)
(* Vocabulary of the properties of the review reader.                      *)
(***************************************************************************)
\* the call l of the reader was answered with the data of a pull request
ReaderAnswered(l) ==
  /\ l.tool = "get_pr_review_and_comments"
  /\ l.reqs # <<>>
  /\ l.outs[1].kind = "ok"

\* the pieces of out that follow, at distance d, a piece equal to marker
Following(out, marker, d) ==
  LET at == SelectSeq([i \in 1..Len(out) |-> i], LAMBDA i : out[i] = marker)
  IN  [k \in DOMAIN at |-> out[at[k] + d]]

Count(seq, x) == Cardinality({i \in DOMAIN seq : seq[i] = x})

\* the paths of the threads the output shows, and the status shown with each
ThreadsShown(out) == Following(out, "): ", 1)

StatusShown(out) == Following(out, "): ", -1)

\* the bodies the output shows as root comments, as replies, as top-level
\* comments
RootsShown(out) == Following(out, "         ", 1)

RepliesShown(out) == Following(out, "           ", 1)

CommentsShown(out) == Following(out, "   :memo: Comment:\n", 2)

\* the timestamp carries an offset and so names an instant
NamesInstant(text) ==
  \/ Len(text) = 2 /\ text[2] = "Z"
  \/ Len(text) = 7 /\ text[2] = "+"

\* that instant: the hour on the local clock, less the offset
Hour(text) ==
  DigitValue(text[1]) - (IF text[Len(text)] = "Z" THEN 0 ELSE DigitValue(text[4]))

SinceNamesInstant(l) == Bind(l).since.t = "str" /\ NamesInstant(Bind(l).since.v)

SinceUnset(l) == Bind(l).since \in {PyNone, PyStr(<<>>)}

C12_ResolvedHidden ==
  (ReaderAnswered(last) /\ (SinceNamesInstant(last) \/ SinceUnset(last))) =>
    LET b == Bind(last)
        data == last.outs[1].data
        passes(t) ==
          \/ SinceUnset(last)
          \/ \E k \in DOMAIN t.comments : Hour(t.comments[k].updatedAt) > Hour(b.since.v)
        shown == ThreadsShown(last.ret)
    IN  \A i \in DOMAIN data.reviewThreads :
          LET t == data.reviewThreads[i]
              p == t.comments[1].path[1]
          IN  t.isResolved =>
                IF b.show_resolved = PyBool(TRUE)
                THEN passes(t) =>
                       /\ Count(shown, p) = 1
                       /\ \A k \in DOMAIN shown :
                            shown[k] = p => StatusShown(last.ret)[k] = ":check: RESOLVED"
                ELSE Count(shown, p) = 0

\* show_resolved left at its default, since hour 2: the second thread, resolved
\* and with a comment of hour 3, is not shown, the first is
C12_Witness ==
  /\ ReaderAnswered(last)
  /\ "show_resolved" \notin DOMAIN last.kwargs
  /\ Bind(last).since = PyStr(<<"2", "Z">>)
  /\ Len(last.outs[1].data.reviewThreads) = 2
  /\ last.outs[1].data.reviewThreads[2].isResolved
  /\ last.outs[1].data.reviewThreads[2].comments[1].updatedAt = <<"3", "Z">>
  /\ ThreadsShown(last.ret) = <<"f">>

(***************************************************************************)
(* C13                                                                     *)
(***************************************************************************)
\* the position of the first piece of out equal to marker
FirstAt(out, marker) ==
  CHOOSE i \in DOMAIN out : out[i] = marker /\ \A j \in 1..(i - 1) : out[j] # marker

\* the code context shown, up to the first comment of the thread
ContextShown(out) ==
  SubSeq(out, FirstAt(out, "      Code context (lines "), FirstAt(out, "      :speech: ") - 1)

\* What the claim expects for the hunk "@@ -1,3 +c,3 @@" with lines of the
\* given kinds, the comment on the lines `first`..`line`: the number of the
\* i-th line is c plus the count of context and added lines before it.
ContextExpected(c, kinds, first, line) ==
  LET number(i) == c + Cardinality({j \in 1..(i - 1) : kinds[j] # "-"})
      row(i) == IF kinds[i] # "-" /\ first <= number(i) /\ number(i) <= line
                THEN <<IF kinds[i] = "+" THEN "       +" ELSE "        ">>
                       \o Str(number(i)) \o <<": ", HunkContent[i], "\n">>
                ELSE <<>>
  IN  <<"      Code context (lines ">> \o Str(first) \o <<"-">> \o Str(line) \o <<"):\n">>
        \o row(1) \o row(2) \o row(3) \o <<"\n">>

\* C13: for a hunk with header "@@ -a,b +c,d @@" the numbers of the lines
\* that are not removed start at c and grow by one per context or added line,
\* a removed line not counting; exactly the context and added lines numbered
\* within [startLine or line, line] are shown, each with its number, an added
\* line marked "+".
C13_DiffContext ==
  ReaderAnswered(last) =>
    \A c \in HunkStarts : \A kinds \in HunkKinds :
      LET first_comment == last.outs[1].data.reviewThreads[1].comments[1]
          line == first_comment.line
          first == IF first_comment.startLine # 0 THEN first_comment.startLine ELSE line
      IN  (first_comment.diffHunk = Hunk(c, kinds) /\ line # 0) =>
            /\ ~last.raised
            /\ ContextShown(last.ret) = ContextExpected(c, kinds, first, line)

\* a hunk that starts at line 10 with a removed line between an added and a
\* context line, the comment on lines 10-11: both are shown, the second
\* numbered 11
C13_Witness ==
  /\ ReaderAnswered(last)
  /\ last.outs[1].data.reviewThreads[1].comments[1].diffHunk
       = Hunk(10, <<"+", "-", " ">>)
  /\ last.outs[1].data.reviewThreads[1].comments[1].startLine = 10
  /\ last.outs[1].data.reviewThreads[1].comments[1].line = 11
  /\ ContextShown(last.ret) =
       <<"      Code context (lines ", "1", "0", "-", "1", "1", "):\n",
         "       +", "1", "0", ": ", "p", "\n",
         "        ", "1", "1", ": ", "r", "\n", "\n">>

(***************************************************************************)
(* C18                                                                     *)
(***************************************************************************)
\* the review ids of the groups the output shows, in order
GroupsShown(out) == Following(out, ":memo: Review [Review ID: ", 1)

\* the key of the group a thread belongs to
GroupKey(thread) ==
  LET first_comment == thread.comments[1]
  IN  IF "pullRequestReview" \in DOMAIN first_comment
         /\ first_comment.pullRequestReview # Null
      THEN first_comment.pullRequestReview.id[1]
      ELSE "N/A"

\* the piece that follows the last `marker` before position i of out
LastBefore(out, marker, i) ==
  out[(CHOOSE j \in 1..(i - 1) :
         out[j] = marker /\ \A k \in (j + 1)..(i - 1) : out[k] # marker) + 1]

\* C18: the threads are shown in groups keyed by the review of their first
\* comment, the groups in the order their keys are first seen; every thread
\* whose first comment has no review, the member absent or null, is shown in
\* the one group "N/A", and the call does not fail.
C18_GroupedByReview ==
  ReaderAnswered(last) =>
    LET threads == last.outs[1].data.reviewThreads
        out == last.ret
        keys == [i \in DOMAIN threads |-> GroupKey(threads[i])]
        firsts == SelectSeq([i \in DOMAIN threads |-> i],
                            LAMBDA i : \A j \in 1..(i - 1) : keys[j] # keys[i])
    IN  /\ ~last.raised
        /\ ~StartsWith(out, "Error: ")
        /\ GroupsShown(out) = [k \in DOMAIN firsts |-> keys[firsts[k]]]
        /\ \A i \in DOMAIN threads :
             LET p == threads[i].comments[1].path[1]
             IN  /\ Count(ThreadsShown(out), p) = 1
                 /\ \A n \in DOMAIN out :
                      (n > 1 /\ out[n] = p /\ out[n - 1] = "): ") =>
                        LastBefore(out, ":memo: Review [Review ID: ", n) = keys[i]

(***************************************************************************)
(* C19                                                                     *)
(***************************************************************************)
\* the positions of out that show the body of a comment
ShownAt(out, body) ==
  {n \in DOMAIN out : n > 1 /\ out[n] = body
                        /\ out[n - 1] \in {"         ", "           "}}

\* C19: every comment of a shown thread is shown exactly once: as a root
\* comment when it replies to nothing, otherwise as a reply under the comment
\* it replies to.
C19_EveryCommentOnce ==
  ReaderAnswered(last) =>
    \A i \in DOMAIN last.outs[1].data.reviewThreads :
      LET comments == last.outs[1].data.reviewThreads[i].comments
          out == last.ret
          at(c) == CHOOSE n \in ShownAt(out, c.body[1]) : TRUE
      IN  Count(ThreadsShown(out), comments[1].path[1]) = 1 =>
            \A k \in DOMAIN comments :
              LET c == comments[k]
              IN  /\ Cardinality(ShownAt(out, c.body[1])) = 1
                  /\ IF c.replyTo = Null
                     THEN out[at(c) - 1] = "         "
                     ELSE /\ out[at(c) - 1] = "           "
                          /\ \A j \in DOMAIN comments :
                               comments[j].id = c.replyTo.id =>
                                 /\ ShownAt(out, comments[j].body[1]) # {}
                                 /\ at(comments[j]) < at(c)
                                 /\ \A n \in at(comments[j])..at(c) :
                                      out[n] = "         " => n < at(comments[j])

(***************************************************************************)
(* list_issues over answers that mix issues and pull requests.             *)
(***************************************************************************)
\* the item at position i of an answer: an issue, or a pull request, which the
\* issues endpoint lists with a "pull_request" key
IssueItem(i, isPull) ==
  LET issue == [number |-> <<ToString(i)>>, title |-> <<"t", ToString(i)>>,
                user |-> [login |-> <<"u">>], html_url |-> <<"w", ToString(i)>>]
  IN  IF isPull THEN [x \in {"pull_request"} |-> [url |-> <<"v">>]] @@ issue ELSE issue

IssueLists ==
  UNION {{[i \in 1..n |-> IssueItem(i, pulls[i])] : pulls \in [1..n -> BOOLEAN]} :
         n \in 0..3}

IssueAnswers ==
  {[kind |-> "ok", data |-> items] : items \in IssueLists}
    \cup {[kind |-> k, data |-> <<>>] : k \in RemoteOutcomes \ {"ok"}}

IssueValues ==
  [p \in ParamDomain |->
  CASE p = "state" -> {PyStr(<<"o", "p", "e", "n">>), PyStr(<<"a", "l", "l">>)}
    [] p = "repo" -> {PyStr(RepoText), PyStr(<<>>)}
    [] OTHER -> {}]

IssueCalls == CallsOf("list_issues", {0}, 2, IssueValues)

IssueEnv ==
  [GITHUB_WRITE |-> {PyNone}, GITHUB_REPOSITORY |-> {PyNone, PyStr(<<"p", "/", "q">>)},
   GITHUB_TOKEN |-> TokenValues]

ListIssues(S, A) ==
  \E c \in CallsTo(S, "list_issues") : \E o \in A :
    Finish(c, Context(o, "ok", "none"), tool_list_issues(c, Context(o, "ok", "none")))

InitIssues == InitWith(IssueEnv)

NextIssues ==
  \/ SetEnv(IssueEnv)
  \/ ListIssues(IssueCalls, IssueAnswers)

SpecIssues == InitIssues /\ [][NextIssues]_vars

(***************************************************************************)
(* C14                                                                     *)
(***************************************************************************)
\* list_issues sent its request and the request was answered with a list
ListAnswered(l) ==
  /\ l.tool = "list_issues"
  /\ l.reqs # <<>>
  /\ l.outs[1].kind = "ok"

\* the repository the request of the call was addressed to
RepositoryAsked(l) == SubSeq(l.reqs[1].url, 2, Len(l.reqs[1].url) - 2)

\* C14: list_issues leaves every item with a pull_request key out of its
\* table and of the text it returns and keeps every other item, in order;
\* when nothing is left it prints no table and no error but returns a
\* message that names the state asked for and the repository.
C14_IssuesOnly ==
  ListAnswered(last) =>
    LET items == last.outs[1].data
        kept == SelectSeq(items, LAMBDA x : "pull_request" \notin DOMAIN x)
        state == Bind([tool |-> last.tool, args |-> last.args,
                       kwargs |-> last.kwargs]).state.v
    IN  /\ ~last.raised
        /\ "red" \notin {last.panels[n] : n \in DOMAIN last.panels}
        /\ IF kept = <<>>
           THEN /\ last.ret = <<"No ">> \o state \o <<" issues found in ">>
                                \o RepositoryAsked(last)
                /\ last.table = <<>>
                /\ last.panels = <<"blue", "yellow">>
           ELSE /\ last.panels = <<"blue", "table">>
                /\ last.table = [k \in DOMAIN kept |->
                                   <<<<"#">> \o kept[k].number, kept[k].title,
                                     kept[k].user.login, kept[k].html_url>>]
                /\ Following(last.ret, "#", 1) = [k \in DOMAIN kept |-> kept[k].number[1]]
                /\ LET header == <<"Issues (">> \o state \o <<") in ">>
                                    \o RepositoryAsked(last) \o <<":\n">>
                   IN  SubSeq(last.ret, 1, Len(header)) = header

\* every item of the answer is a pull request, so nothing is left to list
C14_Witness ==
  /\ ListAnswered(last)
  /\ Len(last.outs[1].data) >= 2
  /\ \A i \in DOMAIN last.outs[1].data : "pull_request" \in DOMAIN last.outs[1].data[i]
  /\ last.ret[1] = "No "

(***************************************************************************)
(* C17                                                                     *)
(***************************************************************************)
\* the panels of a call other than the panel of its inputs and its tables
OutcomePanels(panels) == SelectSeq(panels, LAMBDA p : p \notin {"blue", "table"})

\* C17: every call of a tool prints exactly one outcome panel, on each of its
\* return paths.
C17_OneOutcomePanel ==
  (last.tool # "none" /\ ~last.raised) => Len(OutcomePanels(last.panels)) = 1

(***************************************************************************)
(* The runner, started over command lines and session variables of every   *)
(* shape, any one of its library calls raising.                            *)
(***************************************************************************)
MaxArgs == 2

ArgValues == {<<>>, <<" ">>, <<"a">>, <<"b", " ", "c">>}

\* sys.argv: the name of the script, then at most MaxArgs arguments
Argvs ==
  UNION {{<<<<"agent_runner.py">>>> \o args : args \in [1..n -> ArgValues]} :
         n \in 0..MaxArgs}

SessionValues == {PyNone, PyStr(<<>>), PyStr(<<"s">>)}

RunnerEnv ==
  [GITHUB_WRITE |-> {PyNone}, GITHUB_REPOSITORY |-> {PyNone, PyStr(RepoText)},
   GITHUB_TOKEN |-> {PyNone}]

RunnerFaults == {"none"} \cup {LibraryCalls[i] : i \in DOMAIN LibraryCalls}

InitRunner ==
  /\ Loaded(RunnerEnv)
  /\ runner \in {[pc |-> "launched", argv |-> argv,
                   environ |-> [SESSION_ID |-> id, S3_SESSION_BUCKET |-> bucket]] :
                  argv \in Argvs, id \in SessionValues, bucket \in SessionValues}

\* the process runs main() to its exit
Main ==
  /\ runner.pc = "launched"
  /\ \E fault \in RunnerFaults :
       runner' = [pc |-> "exited", argv |-> runner.argv, environ |-> runner.environ,
                  fault |-> fault]
                   @@ main(runner.argv, runner.environ, env, fault)
  /\ UNCHANGED <<env, log, artifactDir, clock, last>>

NextRunner == Main

SpecRunner == InitRunner /\ [][NextRunner]_vars

(***************************************************************************)
(* C15                                                                     *)
(***************************************************************************)
RECURSIVE Spaced(_)

\* the texts of args with one space between each two
Spaced(args) ==
  IF Len(args) = 0 THEN <<>>
  ELSE IF Len(args) = 1 THEN args[1]
  ELSE Spaced(SubSeq(args, 1, Len(args) - 1)) \o <<" ">> \o args[Len(args)]

Blank(text) == \A i \in DOMAIN text : text[i] \in {" ", "\t", "\n"}

\* C15: without arguments, or with arguments that joined by single spaces
\* are blank, the process exits with status 1 having called neither the model
\* nor the agent; otherwise the task it announces and passes to the agent is
\* the arguments joined by single spaces, and it exits with 0 exactly when
\* nothing raised.
C15_TaskFromArguments ==
  runner.pc = "exited" =>
    LET args == Tail(runner.argv)
    IN  IF args = <<>> \/ Blank(Spaced(args))
        THEN runner.status = 1 /\ runner.calls = <<>>
        ELSE /\ runner.stdout[1] = <<":robot: Running agent with task: ">> \o Spaced(args)
             /\ runner.calls # <<>>
             /\ runner.calls[Len(runner.calls)] = "agent" => runner.query = Spaced(args)
             /\ runner.status = IF runner.error = <<>> THEN 0 ELSE 1

\* two arguments, one of them holding a space, reached the agent
C15_Witness ==
  /\ runner.pc = "exited"
  /\ Len(runner.argv) = 3
  /\ runner.query = <<"a", " ", "b", " ", "c">>
  /\ runner.status = 0

(***************************************************************************)
(* C16                                                                     *)
(***************************************************************************)
IsSet(x) == x \notin {PyNone, PyStr(<<>>)}

\* C16: a run that reaches run_agent without both SESSION_ID and
\* S3_SESSION_BUCKET set to non-empty values exits with status 1 without
\* building a session manager or an agent and without invoking the agent,
\* and unless building the model raised, the error is that both must be set;
\* an agent is only built with a session manager made from the two values.
C16_SessionRequired ==
  (runner.pc = "exited" /\ runner.calls # <<>>) =>
    LET id == runner.environ.SESSION_ID
        bucket == runner.environ.S3_SESSION_BUCKET
        called == {runner.calls[i] : i \in DOMAIN runner.calls}
    IN  /\ ~(IsSet(id) /\ IsSet(bucket)) =>
             /\ runner.status = 1
             /\ called = {"BedrockModel"}
             /\ runner.fault # "BedrockModel" =>
                  /\ runner.error = SessionUnset
                  /\ runner.stdout[Len(runner.stdout)] = <<"Fatal error: ">> \o SessionUnset
        /\ called \cap {"Agent", "agent"} # {} =>
             /\ runner.managed
             /\ "S3SessionManager" \in called
             /\ runner.session # Null
             /\ runner.session.session_id = id.v
             /\ runner.session.bucket = bucket.v

\* the session is named, the bucket is the empty text
C16_Witness ==
  /\ runner.pc = "exited"
  /\ runner.environ.SESSION_ID = PyStr(<<"s">>)
  /\ runner.environ.S3_SESSION_BUCKET = PyStr(<<>>)
  /\ runner.calls = <<"BedrockModel">>
  /\ runner.error = SessionUnset
  /\ runner.status = 1

====
